---- MODULE Spec2Model ----
(***************************************************************************)
(* Model of the allocation-and-risk engine of src/logic_engine.py          *)
(* (class TradingLogic) together with the decision ledger of               *)
(* src/trade_logger.py that it reads and writes.                           *)
(*                                                                         *)
(* Numbers.  Python floats are modelled by exact arithmetic:               *)
(*   - prices are whole dollars (integers); an unavailable price (None)    *)
(*     is the empty tuple, an available one a 1-tuple;                     *)
(*   - share quantities are counted in 1/QtyScale of a share, so that the  *)
(*     4-decimal rounding of fractional orders is exact;                   *)
(*   - money (budgets, costs, proceeds) is counted in 1/QtyScale of a      *)
(*     dollar, so quantity * price is exact;                               *)
(*   - percentages are whole percents, env_bias and the sentiment and      *)
(*     duration scores are tenths, a rank score is in hundredths;          *)
(*   - indicator values (ATR, SMA) and the ATR multiplier are rationals    *)
(*     [n, d]; an RSI is the pair of summed gains and losses.              *)
(***************************************************************************)
EXTENDS Integers, Sequences, FiniteSets, TLC

(* ---------------------------------------------------------------------- *)
(* Program constants                                                      *)
(* ---------------------------------------------------------------------- *)
TOTAL_BUDGET == 1000
RISK_PER_TRADE_PERCENT == 10
MAX_CONCENTRATION_PERCENT == 20
STOP_LOSS_PERCENT == 8
atr_period == 14
trailing_activation_pct == 10
trailing_drop_pct == 3
QtyScale == 10000
CooldownHours == 4
GraceHours == 24

(* ---------------------------------------------------------------------- *)
(* Bounds of the model                                                    *)
(* ---------------------------------------------------------------------- *)
MaxCycles == 2
MaxSignals == 3
MaxBars == 52
MaxCalls == 3

(* ---------------------------------------------------------------------- *)
(* Optional values and rationals                                          *)
(* ---------------------------------------------------------------------- *)
None == <<>>
Some(v) == <<v>>
IsNone(x) == Len(x) = 0
Val(x) == x[1]

Abs(x) == IF x < 0 THEN -x ELSE x
Max2(a, b) == IF a >= b THEN a ELSE b
Max3(a, b, c) == Max2(a, Max2(b, c))

RECURSIVE Gcd(_, _)
Gcd(a, b) == IF b = 0 THEN a ELSE Gcd(b, a % b)

Rat(n, d) == LET g == Gcd(Abs(n), d) IN [n |-> n \div g, d |-> d \div g]
RLt(a, b) == a.n * b.d < b.n * a.d
RSub(a, b) == Rat(a.n * b.d - b.n * a.d, a.d * b.d)
RMul(a, b) == Rat(a.n * b.n, a.d * b.d)
RInt(k) == [n |-> k, d |-> 1]
(* Python truthiness of an optional number: None and 0.0 are both false. *)
Truthy(x) == ~IsNone(x) /\ Val(x).n # 0

(* math.floor(a / b) for b # 0 *)
Floor(a, b) == IF b > 0 THEN a \div b ELSE (-a) \div (-b)
(* round(a / b) to the nearest integer, ties to even, for a >= 0, b > 0 *)
RoundHalfEven(a, b) ==
    LET q == a \div b
        r == a % b
    IN  IF 2 * r > b THEN q + 1
        ELSE IF 2 * r < b THEN q
        ELSE IF q % 2 = 0 THEN q ELSE q + 1

(* ---------------------------------------------------------------------- *)
(* Indicator Calculator                                                   *)
(* ---------------------------------------------------------------------- *)
RECURSIVE SumSeq(_, _, _)
SumSeq(s, lo, hi) == IF lo > hi THEN 0 ELSE s[hi] + SumSeq(s, lo, hi - 1)

RECURSIVE MaxSeq(_, _, _)
MaxSeq(s, lo, hi) == IF lo >= hi THEN s[hi] ELSE Max2(s[hi], MaxSeq(s, lo, hi - 1))

CloseSeries(ohlc) == [i \in 1..Len(ohlc) |-> ohlc[i].close]

(* true range of bar i (i >= 2, so the previous close exists) *)
TrueRange(ohlc, i) ==
    Max3(ohlc[i].high - ohlc[i].low,
         Abs(ohlc[i].high - ohlc[i - 1].close),
         Abs(ohlc[i].low - ohlc[i - 1].close))

(* variant: a series of exactly `period` bars is accepted *)
calculate_atr_short(ohlc, period) ==
    IF IsNone(ohlc) THEN None
    ELSE LET df == Val(ohlc)
             len == Len(df)
         IN  IF len < period THEN None
             ELSE LET tr == [i \in 1..len |-> IF i = 1 THEN df[1].high - df[1].low
                                               ELSE TrueRange(df, i)]
                  IN  Some(Rat(SumSeq(tr, len - period + 1, len), period))

calculate_atr(ohlc, period) ==
    IF IsNone(ohlc) THEN None
    ELSE LET df == Val(ohlc)
             len == Len(df)
         IN  IF len < period + 1 THEN None
             ELSE LET tr == [i \in 1..len |-> IF i = 1 THEN df[1].high - df[1].low
                                               ELSE TrueRange(df, i)]
                  IN  Some(Rat(SumSeq(tr, len - period + 1, len), period))

calculate_rsi(series, period) ==
    LET len == Len(series) IN
    IF len < period + 1 THEN None
    ELSE LET delta == [i \in 1..len |-> IF i = 1 THEN 0 ELSE series[i] - series[i - 1]]
             gain == [i \in 1..len |-> IF delta[i] > 0 THEN delta[i] ELSE 0]
             loss == [i \in 1..len |-> IF delta[i] < 0 THEN -delta[i] ELSE 0]
         IN  Some([g |-> SumSeq(gain, len - period + 1, len),
                   l |-> SumSeq(loss, len - period + 1, len)])

(* Comparisons of an RSI value 100 - 100/(1 + g/l) with a level k < 100.   *)
(* g = l = 0 gives NaN, for which every comparison is false; l = 0 < g     *)
(* gives 100.                                                              *)
RsiGT(rsi, k) == rsi.g + rsi.l > 0 /\ 100 * rsi.g > k * (rsi.g + rsi.l)
RsiGE(rsi, k) == rsi.g + rsi.l > 0 /\ 100 * rsi.g >= k * (rsi.g + rsi.l)
RsiLT(rsi, k) == rsi.g + rsi.l > 0 /\ 100 * rsi.g < k * (rsi.g + rsi.l)

calculate_sma(series, period) ==
    LET len == Len(series) IN
    IF len < period THEN None
    ELSE Some(Rat(SumSeq(series, len - period + 1, len), period))

(* ---------------------------------------------------------------------- *)
(* Market-data collaborator: prices and daily bars                        *)
(* ---------------------------------------------------------------------- *)
Tickers == {"AAA", "BBB", "NVDA", "CCC"}

(* A history of len bars ending at close `last`; day-over-day changes      *)
(* alternate between d1 (even bars) and d2 (odd bars); high and low are    *)
(* close +/- spread.                                                       *)
EvensIn(a, b) == (b \div 2) - (a \div 2)
MkSeries(len, last, d1, d2, spread) ==
    [i \in 1..len |->
        LET ev == EvensIn(i, len)
            od == (len - i) - ev
            c  == last - d1 * ev - d2 * od
        IN  [high |-> c + spread, low |-> c - spread, close |-> c]]

(* Shapes of history the collaborator may return: len = 0 stands for       *)
(* "no history" (None); gap is last close minus the current price.         *)
HistShapes ==
    { [len |-> 0,  gap |-> 0, d1 |-> 0,  d2 |-> 0,  spread |-> 0],   \* None
      [len |-> 52, gap |-> 0, d1 |-> 0,  d2 |-> 0,  spread |-> 1],   \* flat, ATR 2
      [len |-> 52, gap |-> 0, d1 |-> 0,  d2 |-> 0,  spread |-> 0],   \* flat, ATR 0
      [len |-> 52, gap |-> 0, d1 |-> -3, d2 |-> 2,  spread |-> 1],   \* downtrend, RSI 40
      [len |-> 52, gap |-> 0, d1 |-> -1, d2 |-> -1, spread |-> 1],   \* slide, RSI 0
      [len |-> 52, gap |-> 0, d1 |-> 1,  d2 |-> 0,  spread |-> 1],   \* rally, RSI 100
      [len |-> 52, gap |-> 8, d1 |-> 2,  d2 |-> -1, spread |-> 1],   \* RSI 66.7, price fell today
      [len |-> 52, gap |-> 8, d1 |-> -3, d2 |-> 2,  spread |-> 1],   \* downtrend, price fell today
      [len |-> 25, gap |-> 0, d1 |-> -3, d2 |-> 2,  spread |-> 1],   \* SMA50 unavailable
      [len |-> 17, gap |-> 0, d1 |-> 2,  d2 |-> -1, spread |-> 1],   \* SMA20 unavailable, RSI 66.7
      [len |-> 17, gap |-> 0, d1 |-> 0,  d2 |-> 0,  spread |-> 1],   \* SMA20 unavailable, RSI NaN
      [len |-> 10, gap |-> 0, d1 |-> 0,  d2 |-> 0,  spread |-> 1] }  \* RSI unavailable

fetch_history(px, shape) ==
    IF shape.len = 0 THEN None
    ELSE Some(MkSeries(shape.len, px + shape.gap, shape.d1, shape.d2, shape.spread))

(* What generate_plan and check_portfolio_risks compute from the history   *)
(* of a ticker quoted at px: fetch_history, then the indicators.           *)
ComputeIndicators(px, shape) ==
    LET ohlc == fetch_history(px, shape)
        close_series == CloseSeries(Val(ohlc))
        hi == [i \in 1..Len(Val(ohlc)) |-> Val(ohlc)[i].high]
    IN  [has_ohlc |-> ~IsNone(ohlc),
         atr_14 |-> calculate_atr(ohlc, atr_period),
         rsi    |-> IF IsNone(ohlc) THEN None ELSE calculate_rsi(close_series, 14),
         sma_20 |-> IF IsNone(ohlc) THEN None ELSE calculate_sma(close_series, 20),
         sma_50 |-> IF IsNone(ohlc) THEN None ELSE calculate_sma(close_series, 50),
         high_5 |-> IF ~IsNone(ohlc) /\ Len(Val(ohlc)) >= 5
                    THEN Some(MaxSeq(hi, Len(hi) - 4, Len(hi))) ELSE None]

(* The prices the model quotes, and the indicators for each price and      *)
(* history, computed once.                                                 *)
AllPrices == {-5, 40, 90, 97, 100, 106, 112, 150}
IndicatorTable ==
    [ps \in AllPrices \X HistShapes |-> ComputeIndicators(ps[1], ps[2])] @@ <<>>
Indicators(px, shape) == IndicatorTable[<<px, shape>>]

(* ---------------------------------------------------------------------- *)
(* State                                                                  *)
(* ---------------------------------------------------------------------- *)
VARIABLES
    api,              \* whether self.api is a broker client (set by __init__)
    atr_multiplier,   \* self.atr_multiplier, a rational
    panic_mode,       \* self._panic_mode
    ticker_cache,     \* self._ticker_cache: ticker -> None | Some(BOOLEAN)
    lookups,          \* ticker -> number of self.api.get_asset calls made for it
    answers,          \* ticker -> the values validate_ticker returned, in call order
    positions,        \* broker positions: sequence of [symbol, qty, avg_entry]
    assets,           \* ticker -> what get_asset does in this cycle: "active",
                      \*   "inactive" (not tradable) or "raises" (lookup fails)
    old_ledger,       \* ledger rows older than this cycle, per ticker:
                      \*   [buy_age |-> None | Some(hours), scores |-> None | Some(<<s, d>>),
                      \*    top_price |-> None | Some(highest logged price)]
    ledger,           \* decision records logged in this cycle, in order
    pc,               \* "idle", "risk", "plan", "done", "aborted"
    cycle,            \* number of generate_plan calls started on this engine
    env_bias,         \* generate_plan's argument, in tenths
    sentiment_data,   \* generate_plan's argument: the signals
    quoted,           \* tickers whose price was fetched in this cycle
    price,            \* ticker -> None | Some(dollars): the price fetched
    holdings,         \* current_holdings_data, in the broker's order
    rank_list,
    effective_budget,
    cost_basis_total,
    remaining_budget,
    total_proceeds,   \* check_portfolio_risks: proceeds of the risk sells
    risk_i,           \* next holding to evaluate
    sig_i,            \* next rank_list entry to process
    orders,
    sold_tickers,
    last_eval,        \* locals of the last risk evaluation / signal processed
    exec_i,           \* execute_trades: next order of the plan to process
    submitted,        \* the order requests passed to client.submit_order, in order
    execution         \* the update_execution calls made: [decision_id, status], in order

vars == <<api, atr_multiplier, panic_mode, ticker_cache, lookups, answers, positions, assets, old_ledger, ledger,
          pc, cycle, env_bias, sentiment_data, quoted, price, holdings, rank_list,
          effective_budget,
          cost_basis_total, remaining_budget, total_proceeds, risk_i, sig_i,
          orders, sold_tickers, last_eval, exec_i, submitted, execution>>

engine_vars == <<api, atr_multiplier, panic_mode, ticker_cache, lookups, answers>>
trader_vars == <<exec_i, submitted, execution>>
world_vars == <<positions, assets, old_ledger, trader_vars>>

Money(dollars) == dollars * QtyScale
Shares(n) == n * QtyScale

(* ---------------------------------------------------------------------- *)
(* Decision ledger (src/trade_logger.py)                                  *)
(* ---------------------------------------------------------------------- *)
Row(t, a, q, p, s, d, why) ==
    [ticker |-> t, action |-> a, quantity |-> q, price |-> p,
     sentiment_score |-> s, duration_score |-> d, decision_reason |-> why]

(* log_decision appends the row; the returned row id is its position. *)
log_decision(lg, row) == Append(lg, row)

HasBuy(lg, t) == \E i \in 1..Len(lg) : lg[i].ticker = t /\ lg[i].action = "BUY"

(* variant: the rows logged in this cycle are not seen *)
is_on_cooldown_stale(lg, old, t, hours) ==
    ~IsNone(old[t].buy_age) /\ Val(old[t].buy_age) < hours

(* a BUY of the ticker younger than `hours` (rows of this cycle are new) *)
is_on_cooldown(lg, old, t, hours) ==
    \/ HasBuy(lg, t)
    \/ ~IsNone(old[t].buy_age) /\ Val(old[t].buy_age) < hours

(* hours since the most recent BUY of the ticker, None if there is none *)
get_last_buy_time(lg, old, t) ==
    IF HasBuy(lg, t) THEN Some(0) ELSE old[t].buy_age

(* the highest price in a logged row of the ticker, None if there is none *)
RECURSIVE TopPrice(_, _, _, _)
TopPrice(lg, t, i, top) ==
    IF i > Len(lg) THEN top
    ELSE IF lg[i].ticker = t /\ ~IsNone(lg[i].price)
            /\ (IsNone(top) \/ Val(lg[i].price) > Val(top))
         THEN TopPrice(lg, t, i + 1, lg[i].price)
         ELSE TopPrice(lg, t, i + 1, top)

RECURSIVE LastScored(_, _, _)
LastScored(lg, t, i) ==
    IF i = 0 THEN 0
    ELSE IF lg[i].ticker = t /\ ~IsNone(lg[i].sentiment_score) THEN i
    ELSE LastScored(lg, t, i - 1)

(* the most recent row of the ticker that carries a sentiment score *)
get_latest_scores(lg, old, t) ==
    LET i == LastScored(lg, t, Len(lg)) IN
    IF i > 0 THEN [sentiment |-> Val(lg[i].sentiment_score), duration |-> lg[i].duration_score]
    ELSE IF ~IsNone(old[t].scores)
         THEN [sentiment |-> Val(old[t].scores)[1], duration |-> Val(old[t].scores)[2]]
         ELSE [sentiment |-> 0, duration |-> 0]

(* ---------------------------------------------------------------------- *)
(* Ticker Validator                                                       *)
(* ---------------------------------------------------------------------- *)
(* variant: the cache is written but never read *)
validate_ticker_uncached(cache, t, broker) ==
    IF ~broker.api
    THEN [valid |-> TRUE, asked |-> FALSE, cache |-> [cache EXCEPT ![t] = Some(TRUE)]]
    ELSE IF broker.asset[t] = "raises"
         THEN [valid |-> FALSE, asked |-> TRUE, cache |-> [cache EXCEPT ![t] = Some(FALSE)]]
    ELSE LET is_valid == broker.asset[t] = "active"
         IN  [valid |-> is_valid, asked |-> TRUE,
              cache |-> [cache EXCEPT ![t] = Some(is_valid)]]

(* The answer of validate_ticker, whether get_asset was called, and the    *)
(* cache after the call.  broker is                                        *)
(* [api |-> whether self.api is set, asset |-> ticker -> what get_asset    *)
(* does]: a cached answer is returned as it is; without a client the ticker is assumed valid; an asset that is   *)
(* not active and tradable, and a lookup that raises, both give False.     *)
validate_ticker(cache, t, broker) ==
    IF ~IsNone(cache[t]) THEN [valid |-> Val(cache[t]), asked |-> FALSE, cache |-> cache]
    ELSE IF ~broker.api
    THEN [valid |-> TRUE, asked |-> FALSE, cache |-> [cache EXCEPT ![t] = Some(TRUE)]]
    ELSE IF broker.asset[t] = "raises"
         THEN [valid |-> FALSE, asked |-> TRUE, cache |-> [cache EXCEPT ![t] = Some(FALSE)]]
    ELSE LET is_valid == broker.asset[t] = "active"
         IN  [valid |-> is_valid, asked |-> TRUE,
              cache |-> [cache EXCEPT ![t] = Some(is_valid)]]

(* the engine's validator state after one validate_ticker call: the cache, *)
(* the get_asset calls made and the values returned so far                 *)
Validated(engine, t, v) ==
    [cache |-> v.cache,
     lookups |-> IF v.asked THEN [engine.lookups EXCEPT ![t] = @ + 1] ELSE engine.lookups,
     answers |-> [engine.answers EXCEPT ![t] = Append(@, v.valid)]]

(* ---------------------------------------------------------------------- *)
(* Signal Ranker                                                          *)
(* ---------------------------------------------------------------------- *)
(* The price of an entry is fetched when the entry is built and read only  *)
(* after the risk check; the model keeps it in price[ticker], one price per *)
(* ticker and cycle, drawn when it is first read.                           *)
RankEntry(t, ty, s, d, q) ==
    [ticker |-> t, type |-> ty, rank_score |-> s * d, sent_score |-> s,
     dur_score |-> d, qty |-> q]

(* A. new signals, in input order: each Buy signal is validated, an invalid *)
(* one is logged as SKIP, a valid one is appended to the rank list.         *)
RECURSIVE AddSignals(_, _, _, _)
AddSignals(sigs, i, acc, broker) ==
    IF i > Len(sigs) THEN acc
    ELSE LET sg == sigs[i] IN
         IF sg.action # "Buy" THEN AddSignals(sigs, i + 1, acc, broker)
         ELSE LET v == validate_ticker(acc.engine.cache, sg.ticker, broker) IN
              IF ~v.valid
              THEN AddSignals(sigs, i + 1,
                     [acc EXCEPT !.engine = Validated(acc.engine, sg.ticker, v),
                                 !.lg = log_decision(acc.lg,
                                          Row(sg.ticker, "SKIP", 0, Some(0),
                                              Some(sg.sentiment_score), sg.duration_score,
                                              "not tradable"))],
                     broker)
              ELSE AddSignals(sigs, i + 1,
                     [acc EXCEPT !.engine = Validated(acc.engine, sg.ticker, v),
                                 !.rl = Append(acc.rl,
                                          RankEntry(sg.ticker, "new_signal",
                                                    sg.sentiment_score, sg.duration_score, 0))],
                     broker)

(* B. every holding with qty > 0, scored by its latest logged scores *)
RECURSIVE AddHoldings(_, _, _, _, _)
AddHoldings(hd, i, rl, lg, old) ==
    IF i > Len(hd) THEN rl
    ELSE IF hd[i].qty > 0
         THEN LET sc == get_latest_scores(lg, old, hd[i].ticker) IN
              AddHoldings(hd, i + 1,
                  Append(rl, RankEntry(hd[i].ticker, "holding", sc.sentiment, sc.duration,
                                       hd[i].qty)),
                  lg, old)
         ELSE AddHoldings(hd, i + 1, rl, lg, old)

(* variant: an entry is placed before the entries of equal score *)
InsertDesc_unstable(sorted, x) ==
    LET before == {i \in 1..Len(sorted) : sorted[i].rank_score > x.rank_score}
        k == Cardinality(before)
    IN  SubSeq(sorted, 1, k) \o <<x>> \o SubSeq(sorted, k + 1, Len(sorted))

(* C. list.sort(key = rank_score, reverse = True): stable, descending *)
InsertDesc(sorted, x) ==
    LET before == {i \in 1..Len(sorted) : sorted[i].rank_score >= x.rank_score}
        k == Cardinality(before)
    IN  SubSeq(sorted, 1, k) \o <<x>> \o SubSeq(sorted, k + 1, Len(sorted))

RECURSIVE SortByRank(_, _, _)
SortByRank(list, i, acc) ==
    IF i > Len(list) THEN acc ELSE SortByRank(list, i + 1, InsertDesc(acc, list[i]))

(* variant: the new signals are ranked in defense mode too *)
BuildRankList_unfrozen(sigs, hd, lg, old, engine, broker, frozen) ==
    LET a == AddSignals(sigs, 1, [rl |-> <<>>, lg |-> lg, engine |-> engine], broker)
        b == AddHoldings(hd, 1, a.rl, a.lg, old)
    IN  [rl |-> SortByRank(b, 1, <<>>), lg |-> a.lg, engine |-> a.engine]

BuildRankList(sigs, hd, lg, old, engine, broker, frozen) ==
    LET a == IF frozen
             THEN [rl |-> <<>>, engine |-> engine,
                   lg |-> log_decision(lg, Row("SYSTEM", "DEFENSE_MODE", 0, Some(0),
                                               Some(0), 0, "all buys frozen"))]
             ELSE AddSignals(sigs, 1, [rl |-> <<>>, lg |-> lg, engine |-> engine], broker)
        b == AddHoldings(hd, 1, a.rl, a.lg, old)
    IN  [rl |-> SortByRank(b, 1, <<>>), lg |-> a.lg, engine |-> a.engine]

(* ---------------------------------------------------------------------- *)
(* Risk Evaluator: one holding of check_portfolio_risks                   *)
(* ---------------------------------------------------------------------- *)
(* (current - buy) / buy > pct / 100, for buy > 0 *)
GainAbove(current, buy, pct) == (current - buy) * 100 > pct * buy

(* stop price before the zero-loss rule *)
BaseStop(buy_price, atr_14, mult) ==
    IF Truthy(atr_14) /\ Val(atr_14).n > 0
    THEN RSub(RInt(buy_price), RMul(mult, Val(atr_14)))
    ELSE Rat(buy_price * (100 - STOP_LOSS_PERCENT), 100)

(* variant: the override raises the stop to entry x 1.05 *)
ZeroLossStop_wide(buy_price) == Rat(buy_price * 1050, 1000)

ZeroLossStop(buy_price) == Rat(buy_price * 1005, 1000)

ZeroLossActive(buy_price, current_price, base) ==
    /\ buy_price > 0
    /\ GainAbove(current_price, buy_price, 5)
    /\ RLt(base, ZeroLossStop(buy_price))

StopPrice(buy_price, current_price, base) ==
    IF ZeroLossActive(buy_price, current_price, base) THEN ZeroLossStop(buy_price) ELSE base

HighWaterMark(high_5, current_price) ==
    IF ~IsNone(high_5) THEN Max2(Val(high_5), current_price) ELSE current_price

(* PRIORITY 1: the reason of the stop-loss sell, "" if it does not fire *)
StopLossReason(buy_price, current_price, atr_14, mult) ==
    LET base == BaseStop(buy_price, atr_14, mult)
        stop == StopPrice(buy_price, current_price, base)
    IN  IF RLt(RInt(current_price), stop)
        THEN IF ZeroLossActive(buy_price, current_price, base) THEN "Protected Profit Stop"
             ELSE IF Truthy(atr_14) THEN "ATR Stop"
             ELSE "Hard Stop-Loss"
        ELSE ""

(* variant: the trailing stop is armed without the activation threshold *)
TrailingReason_unarmed(buy_price, current_price, high_5) ==
    IF /\ buy_price > 0
       /\ current_price * 100 < HighWaterMark(high_5, current_price) * (100 - trailing_drop_pct)
    THEN "Trailing Profit Taken"
    ELSE ""

(* PRIORITY 2 *)
TrailingReason(buy_price, current_price, high_5) ==
    IF /\ buy_price > 0
       /\ GainAbove(current_price, buy_price, trailing_activation_pct)
       /\ current_price * 100 < HighWaterMark(high_5, current_price) * (100 - trailing_drop_pct)
    THEN "Trailing Profit Taken"
    ELSE ""

(* variant: price below SMA20 is enough, SMA50 is not consulted *)
BreakdownReason_sma20(current_price, sma_20, sma_50, last_buy, panic) ==
    IF Truthy(sma_20) /\ RLt(RInt(current_price), Val(sma_20))
    THEN LET hours_held == IF IsNone(last_buy) THEN 999 ELSE Val(last_buy)
         IN  IF hours_held < GraceHours /\ ~panic THEN "Grace Period" ELSE "Trend Breakdown"
    ELSE ""

(* variant: no grace period for a fresh holding *)
BreakdownReason_nograce(current_price, sma_20, sma_50, last_buy, panic) ==
    IF /\ Truthy(sma_20) /\ Truthy(sma_50)
       /\ RLt(RInt(current_price), Val(sma_20))
       /\ RLt(Val(sma_20), Val(sma_50))
    THEN "Trend Breakdown"
    ELSE ""

(* variant: the grace period is kept in panic mode *)
BreakdownReason_nopanic(current_price, sma_20, sma_50, last_buy, panic) ==
    IF /\ Truthy(sma_20) /\ Truthy(sma_50)
       /\ RLt(RInt(current_price), Val(sma_20))
       /\ RLt(Val(sma_20), Val(sma_50))
    THEN LET hours_held == IF IsNone(last_buy) THEN 999 ELSE Val(last_buy)
         IN  IF hours_held < GraceHours THEN "Grace Period" ELSE "Trend Breakdown"
    ELSE ""

(* PRIORITY 3: "Trend Breakdown", "Grace Period" (a HOLD), or "" *)
BreakdownReason(current_price, sma_20, sma_50, last_buy, panic) ==
    IF /\ Truthy(sma_20) /\ Truthy(sma_50)
       /\ RLt(RInt(current_price), Val(sma_20))
       /\ RLt(Val(sma_20), Val(sma_50))
    THEN LET hours_held == IF IsNone(last_buy) THEN 999 ELSE Val(last_buy)
         IN  IF hours_held < GraceHours /\ ~panic THEN "Grace Period" ELSE "Trend Breakdown"
    ELSE ""

(* variant: the triggers are tried in the reverse order *)
EvalHolding_reversed(data, px, shape, mult, panic, last_buy) ==
    LET buy_price == data.avg_entry
        shares == data.qty \div QtyScale
        nothing == [outcome |-> "skip", reason |-> "", shares |-> shares,
                    buy_price |-> buy_price, current_price |-> 0,
                    base_stop |-> RInt(0), stop_price |-> RInt(0),
                    zero_loss |-> FALSE, shape |-> shape]
    IN  IF shares <= 0 THEN nothing
        ELSE IF IsNone(px) \/ Val(px) = 0 THEN nothing
        ELSE
        LET current_price == Val(px)
            ind == Indicators(current_price, shape)
            base == BaseStop(buy_price, ind.atr_14, mult)
            r1 == BreakdownReason(current_price, ind.sma_20, ind.sma_50, last_buy, panic)
            r2 == IF r1 = "" THEN TrailingReason(buy_price, current_price, ind.high_5) ELSE r1
            r3 == IF r2 = ""
                  THEN StopLossReason(buy_price, current_price, ind.atr_14, mult)
                  ELSE r2
        IN  [nothing EXCEPT
               !.outcome = IF r3 = "" THEN "hold"
                           ELSE IF r3 = "Grace Period" THEN "grace" ELSE "sell",
               !.reason = IF r3 = "" THEN "Safe" ELSE r3,
               !.current_price = current_price,
               !.base_stop = base,
               !.stop_price = StopPrice(buy_price, current_price, base),
               !.zero_loss = ZeroLossActive(buy_price, current_price, base)]

(* variant: only a holding of exactly zero shares is passed over *)
EvalHolding_shorts(data, px, shape, mult, panic, last_buy) ==
    LET buy_price == data.avg_entry
        shares == data.qty \div QtyScale
        nothing == [outcome |-> "skip", reason |-> "", shares |-> shares,
                    buy_price |-> buy_price, current_price |-> 0,
                    base_stop |-> RInt(0), stop_price |-> RInt(0),
                    zero_loss |-> FALSE, shape |-> shape]
    IN  IF shares = 0 THEN nothing
        ELSE IF IsNone(px) \/ Val(px) = 0 THEN nothing
        ELSE
        LET current_price == Val(px)
            ind == Indicators(current_price, shape)
            base == BaseStop(buy_price, ind.atr_14, mult)
            r1 == StopLossReason(buy_price, current_price, ind.atr_14, mult)
            r2 == IF r1 = "" THEN TrailingReason(buy_price, current_price, ind.high_5) ELSE r1
            r3 == IF r2 = ""
                  THEN BreakdownReason(current_price, ind.sma_20, ind.sma_50, last_buy, panic)
                  ELSE r2
        IN  [nothing EXCEPT
               !.outcome = IF r3 = "" THEN "hold"
                           ELSE IF r3 = "Grace Period" THEN "grace" ELSE "sell",
               !.reason = IF r3 = "" THEN "Safe" ELSE r3,
               !.current_price = current_price,
               !.base_stop = base,
               !.stop_price = StopPrice(buy_price, current_price, base),
               !.zero_loss = ZeroLossActive(buy_price, current_price, base)]

(* The loop body for one holding.  outcome: "skip" (no shares or no price, *)
(* nothing logged), "grace" (HOLD logged, continue), "sell" or "hold".     *)
EvalHolding(data, px, shape, mult, panic, last_buy) ==
    LET buy_price == data.avg_entry
        shares == data.qty \div QtyScale
        nothing == [outcome |-> "skip", reason |-> "", shares |-> shares,
                    buy_price |-> buy_price, current_price |-> 0,
                    base_stop |-> RInt(0), stop_price |-> RInt(0),
                    zero_loss |-> FALSE, shape |-> shape]
    IN  IF shares <= 0 THEN nothing
        ELSE IF IsNone(px) \/ Val(px) = 0 THEN nothing
        ELSE
        LET current_price == Val(px)
            ind == Indicators(current_price, shape)
            base == BaseStop(buy_price, ind.atr_14, mult)
            r1 == StopLossReason(buy_price, current_price, ind.atr_14, mult)
            r2 == IF r1 = "" THEN TrailingReason(buy_price, current_price, ind.high_5) ELSE r1
            r3 == IF r2 = ""
                  THEN BreakdownReason(current_price, ind.sma_20, ind.sma_50, last_buy, panic)
                  ELSE r2
        IN  [nothing EXCEPT
               !.outcome = IF r3 = "" THEN "hold"
                           ELSE IF r3 = "Grace Period" THEN "grace" ELSE "sell",
               !.reason = IF r3 = "" THEN "Safe" ELSE r3,
               !.current_price = current_price,
               !.base_stop = base,
               !.stop_price = StopPrice(buy_price, current_price, base),
               !.zero_loss = ZeroLossActive(buy_price, current_price, base)]

(* ---------------------------------------------------------------------- *)
(* Allocation Planner: one rank-list entry of generate_plan's main loop   *)
(* ---------------------------------------------------------------------- *)
Order(t, a, q, ty, lim, why, id) ==
    [ticker |-> t, action |-> a, quantity |-> q, order_type |-> ty,
     limit_price |-> lim, reason |-> why, decision_id |-> id]

(* math.floor((self.budget * self.max_concentration_percent) / new_price) *)
MaxSharesForTicker(new_price) ==
    Floor(TOTAL_BUDGET * MAX_CONCENTRATION_PERCENT, 100 * new_price)

(* int(current_holdings_data.get(new_ticker, {}).get('qty', 0)) *)
CurrentHeld(hd, t) ==
    LET idx == {i \in 1..Len(hd) : hd[i].ticker = t}
    IN  IF idx = {} THEN 0 ELSE hd[CHOOSE i \in idx : TRUE].qty \div QtyScale

(* variant: a downtrend skips the entry whatever its RSI and rank *)
TechnicalFilter_strict(new_price, new_rank, ind) ==
    IF ~ind.has_ohlc THEN "pass"
    ELSE IF IsNone(ind.rsi) THEN "TypeError: rsi is None"
    ELSE IF RsiGT(Val(ind.rsi), 75) THEN "weak"
    ELSE IF RsiGE(Val(ind.rsi), 65) /\ IsNone(ind.sma_20) THEN "TypeError: sma_20 is None"
    ELSE IF RsiGE(Val(ind.rsi), 65) /\ ~RLt(Val(ind.sma_20), RInt(new_price)) THEN "weak"
    ELSE IF /\ Truthy(ind.sma_20)
            /\ RLt(RInt(new_price), Val(ind.sma_20))
            /\ (~Truthy(ind.sma_50) \/ RLt(Val(ind.sma_20), Val(ind.sma_50)))
         THEN "downtrend"
    ELSE "pass"

(* Technical filter: "weak" (overbought skip), "downtrend" (skip), "pass", *)
(* or the TypeError that a comparison of a number with None raises.        *)
TechnicalFilter(new_price, new_rank, ind) ==
    IF ~ind.has_ohlc THEN "pass"
    ELSE
    LET rsi == ind.rsi
        sma_20 == ind.sma_20
        sma_50 == ind.sma_50
        is_oversold == ~IsNone(rsi) /\ RsiLT(Val(rsi), 35)
        is_high_conviction == new_rank >= 50
    IN  IF IsNone(rsi) THEN "TypeError: rsi is None"
        ELSE IF RsiGT(Val(rsi), 75) THEN "weak"
        ELSE IF RsiGE(Val(rsi), 65) /\ IsNone(sma_20) THEN "TypeError: sma_20 is None"
        ELSE IF RsiGE(Val(rsi), 65) /\ ~RLt(Val(sma_20), RInt(new_price)) THEN "weak"
        ELSE IF /\ Truthy(sma_20) /\ Truthy(sma_50)
                /\ RLt(RInt(new_price), Val(sma_20)) /\ RLt(Val(sma_20), Val(sma_50))
             THEN IF is_oversold \/ is_high_conviction THEN "pass" ELSE "downtrend"
        ELSE IF Truthy(sma_20) /\ ~Truthy(sma_50) /\ RLt(RInt(new_price), Val(sma_20))
             THEN IF is_oversold \/ is_high_conviction THEN "pass" ELSE "downtrend"
        ELSE "pass"

(* Sizing: the quantity (in 1/QtyScale shares) and order type of the buy,  *)
(* quantity 0 when sizing plans no buy.                                    *)
Sizing(new_price, remaining) ==
    LET target_trade_value == (Money(TOTAL_BUDGET) * RISK_PER_TRADE_PERCENT) \div 100
        whole == target_trade_value >= Money(new_price)       \* raw_qty >= 1.0
    IN  IF whole /\ remaining >= Money(new_price)
        THEN LET floor_qty == Floor(target_trade_value, Money(new_price))
                 shares_1 == IF floor_qty = 0 /\ MaxSharesForTicker(new_price) >= 1
                             THEN 1 ELSE floor_qty
                 shares_2 == IF shares_1 * Money(new_price) > remaining
                             THEN Floor(remaining, Money(new_price)) ELSE shares_1
             IN  [qty |-> Shares(shares_2), order_type |-> "limit"]
        ELSE IF /\ ~whole /\ target_trade_value > 0
                /\ remaining > 0 /\ remaining < Money(new_price)
        THEN [qty |-> RoundHalfEven(remaining, new_price), order_type |-> "market"]
        ELSE [qty |-> 0, order_type |-> "none"]

(* Improvement threshold of the swap: 20%, or 0.1 against a score <= 0.01 *)
ThresholdMet(new_rank, old_rank) ==
    IF old_rank <= 1 THEN new_rank > 10 ELSE new_rank * 10 > old_rank * 12

(* variant: every whole share of the holding is sold *)
SwapQty_all(old_qty) == Floor(old_qty, QtyScale)

(* math.floor(old_qty * 0.5), in whole shares *)
SwapQty(old_qty) == Floor(old_qty, 2 * QtyScale)

(* variant: a holding already sold in this cycle may be swapped *)
RECURSIVE FindSwap_any(_, _, _, _)
FindSwap_any(rl, k, new_rank, sold) ==
    IF k = 0 THEN 0
    ELSE IF /\ rl[k].type = "holding"
            /\ ThresholdMet(new_rank, rl[k].rank_score)
            /\ SwapQty(rl[k].qty) > 0
         THEN k
         ELSE FindSwap_any(rl, k - 1, new_rank, sold)

(* variant: a holding whose half rounds to no share may be swapped *)
RECURSIVE FindSwap_halfless(_, _, _, _)
FindSwap_halfless(rl, k, new_rank, sold) ==
    IF k = 0 THEN 0
    ELSE IF /\ rl[k].type = "holding"
            /\ rl[k].ticker \notin sold
            /\ ThresholdMet(new_rank, rl[k].rank_score)
         THEN k
         ELSE FindSwap_halfless(rl, k - 1, new_rank, sold)

(* variant: the scan starts from the best-ranked holding *)
FindSwap_top(rl, k, new_rank, sold) ==
    LET ok == {i \in 1..k : /\ rl[i].type = "holding"
                            /\ rl[i].ticker \notin sold
                            /\ ThresholdMet(new_rank, rl[i].rank_score)
                            /\ SwapQty(rl[i].qty) > 0}
    IN  IF ok = {} THEN 0 ELSE CHOOSE i \in ok : \A j \in ok : i <= j

(* reversed(rank_list): the first holding, from the lowest rank upwards,   *)
(* that is not sold, meets the threshold and has a half of >= 1 share;     *)
(* 0 if there is none.                                                     *)
RECURSIVE FindSwap(_, _, _, _)
FindSwap(rl, k, new_rank, sold) ==
    IF k = 0 THEN 0
    ELSE IF /\ rl[k].type = "holding"
            /\ rl[k].ticker \notin sold
            /\ ThresholdMet(new_rank, rl[k].rank_score)
            /\ SwapQty(rl[k].qty) > 0
         THEN k
         ELSE FindSwap(rl, k - 1, new_rank, sold)

(* quantity and order type of the buy funded by the swap proceeds *)
SwapBuy(proceeds, new_price) ==
    IF proceeds >= Money(new_price)                            \* raw_swap_qty >= 1.0
    THEN [qty |-> Shares(Floor(proceeds, Money(new_price))), order_type |-> "limit"]
    ELSE IF proceeds > 0
    THEN [qty |-> RoundHalfEven(proceeds, new_price), order_type |-> "market"]
    ELSE [qty |-> 0, order_type |-> "limit"]

(* variant: the buy is appended before the sell that funds it *)
SwapOrders_buyfirst(sell, buy, qty) == IF qty > 0 THEN <<buy, sell>> ELSE <<sell>>

(* orders.append(sell order), then orders.append(swap_buy_order) if the    *)
(* swap buys anything                                                      *)
SwapOrders(sell, buy, qty) == IF qty > 0 THEN <<sell, buy>> ELSE <<sell>>

(* variant: the swap loop runs after a sizing buy as well *)
LookForSwap_always(sz) == TRUE

(* Both buy branches of the sizing end in `continue`: the swap loop is     *)
(* reached only when sizing appended no order.                             *)
LookForSwap(sz) == sz.qty = 0

(* The loop body for one new_signal entry `item` whose fetched price is    *)
(* px.  Returns the locals after the iteration: the remaining budget, the  *)
(* ledger, sold_tickers, the orders appended, whether an exception left    *)
(* generate_plan, and the path taken.                                      *)
PlanEntry(item, px, shape, rem, lg, sold, hd, rl, old, prices) ==
    LET t == item.ticker
        new_rank == item.rank_score
        base == [abort |-> FALSE, remaining |-> rem, lg |-> lg, sold |-> sold,
                 new_orders |-> <<>>, path |-> "no price"]
        skip(why) == [base EXCEPT
                        !.lg = log_decision(lg, Row(t, "SKIP", 0, px, Some(item.sent_score),
                                                    item.dur_score, why)),
                        !.path = why]
    IN
    IF IsNone(px) \/ Val(px) = 0 THEN base
    ELSE
    LET new_price == Val(px) IN
    IF is_on_cooldown(lg, old, t, CooldownHours) THEN skip("cooldown")
    ELSE IF CurrentHeld(hd, t) >= MaxSharesForTicker(new_price) THEN skip("max concentration")
    ELSE
    LET tf == TechnicalFilter(new_price, new_rank, Indicators(new_price, shape)) IN
    IF tf \in {"TypeError: rsi is None", "TypeError: sma_20 is None"}
    THEN [base EXCEPT !.abort = TRUE, !.path = tf]
    ELSE IF tf = "weak" THEN skip("technicals weak")
    ELSE IF tf = "downtrend" THEN skip("downtrend")
    ELSE
    LET sz == Sizing(new_price, rem)
        why == IF sz.order_type = "limit" THEN "Holistic Buy" ELSE "Fractional Gap-Fill"
        b == IF sz.qty > 0
             THEN [base EXCEPT
                     !.remaining = rem - sz.qty * new_price,
                     !.lg = log_decision(lg, Row(t, "BUY", sz.qty, px, Some(item.sent_score),
                                                 item.dur_score, why)),
                     !.new_orders = << Order(t, "buy", sz.qty, sz.order_type,
                                             IF sz.order_type = "limit" THEN px ELSE None,
                                             why, Len(lg) + 1) >>,
                     !.path = why]
             ELSE [base EXCEPT !.path = "nothing"]
    IN
    IF ~LookForSwap(sz) THEN b
    ELSE
    LET k == FindSwap(rl, Len(rl), new_rank, sold) IN
    IF k = 0 THEN b
    ELSE
    LET old_ticker == rl[k].ticker
        old_price == prices[old_ticker]
    IN
    IF IsNone(old_price) THEN [base EXCEPT !.abort = TRUE, !.path = "TypeError: price is None"]
    ELSE
    LET swap_qty == SwapQty(rl[k].qty)
        proceeds == swap_qty * Money(Val(old_price))
        lg1 == log_decision(b.lg, Row(old_ticker, "SELL", Shares(swap_qty), old_price, None, 0,
                                      "Partial Swap"))
        sell == Order(old_ticker, "sell", Shares(swap_qty), "limit", old_price,
                      "Partial Swap", Len(b.lg) + 1)
        sb == SwapBuy(proceeds, new_price)
        lg2 == IF sb.qty > 0
               THEN log_decision(lg1, Row(t, "BUY", sb.qty, px, Some(item.sent_score),
                                          item.dur_score, "Swap Buy"))
               ELSE lg1
        buy == Order(t, "buy", sb.qty, sb.order_type,
                     IF sb.order_type = "limit" THEN px ELSE None, "Swap Buy", Len(lg1) + 1)
        buy_cost == IF sb.qty > 0 THEN sb.qty * new_price ELSE 0
        leftover == proceeds - buy_cost
    IN  [b EXCEPT
           !.remaining = IF leftover > 0 THEN b.remaining + leftover ELSE b.remaining,
           !.lg = lg2,
           !.sold = sold \cup {old_ticker},
           !.new_orders = b.new_orders \o SwapOrders(sell, buy, sb.qty),
           !.path = "swap"]

(* ---------------------------------------------------------------------- *)
(* Operations                                                              *)
(* ---------------------------------------------------------------------- *)
NoEval == [kind |-> "none"]

(* variant: panic mode, once set, stays set on the engine *)
PanicMode_sticky(eb) == panic_mode \/ eb < 3

(* self._panic_mode = env_bias < 0.3 *)
PanicMode(eb) == eb < 3

(* generate_plan up to the risk check: modes, budget, holdings, ranking.   *)
(* eb: env_bias; sd: sentiment_data; as: what get_asset does for each      *)
(* ticker during this cycle.  Without a client no positions are listed.    *)
BeginCycle(eb, sd, as) ==
    LET safe_hold_mode == eb = 0
        defense_mode == eb < 5
        hd == IF api
              THEN [i \in 1..Len(positions) |->
                      [ticker |-> positions[i].symbol, qty |-> positions[i].qty,
                       avg_entry |-> positions[i].avg_entry]]
              ELSE <<>>
        cost == [i \in 1..Len(hd) |-> hd[i].qty * hd[i].avg_entry]
    IN  /\ pc = "idle"
        /\ cycle < MaxCycles
        /\ \E built \in {BuildRankList(sd, hd, <<>>, old_ledger,
                                       [cache |-> ticker_cache, lookups |-> lookups,
                                        answers |-> answers],
                                       [api |-> api, asset |-> as],
                                       defense_mode \/ safe_hold_mode)} :
           /\ cycle' = cycle + 1
           /\ env_bias' = eb
           /\ sentiment_data' = sd
           /\ assets' = as
           /\ panic_mode' = PanicMode(eb)
           /\ atr_multiplier' = IF safe_hold_mode THEN RMul(atr_multiplier, Rat(5, 10))
                                ELSE IF defense_mode THEN RMul(atr_multiplier, Rat(7, 10))
                                ELSE atr_multiplier
           /\ holdings' = hd
           /\ cost_basis_total' = SumSeq(cost, 1, Len(cost))
           /\ effective_budget' = (Money(TOTAL_BUDGET) * eb) \div 10
           /\ remaining_budget' = effective_budget' - cost_basis_total'
           /\ rank_list' = built.rl
           /\ ledger' = built.lg
           /\ ticker_cache' = built.engine.cache
           /\ lookups' = built.engine.lookups
           /\ answers' = built.engine.answers
           /\ pc' = "risk"
           /\ risk_i' = 1
           /\ UNCHANGED <<api, positions, old_ledger, quoted, price, total_proceeds, sig_i,
                          orders, sold_tickers, last_eval, trader_vars>>

(* check_portfolio_risks: the loop body for holding number risk_i; px is   *)
(* the holding's current price, shape the history the collaborator has.    *)
CheckHolding(px, shape) ==
    /\ pc = "risk"
    /\ risk_i <= Len(holdings)
    /\ LET data == holdings[risk_i]
           t == data.ticker
       IN  \E ev \in {EvalHolding(data, px, shape, atr_multiplier, panic_mode,
                                  get_last_buy_time(ledger, old_ledger, t))} :
           LET row == Row(t, IF ev.outcome = "sell" THEN "SELL" ELSE "HOLD",
                          Shares(ev.shares), px, None, 0, ev.reason)
           IN
           /\ quoted' = quoted \cup {t}
           /\ price' = [price EXCEPT ![t] = px]
           /\ last_eval' = ev @@ [kind |-> "risk", ticker |-> t]
           /\ ledger' = IF ev.outcome = "skip" THEN ledger ELSE log_decision(ledger, row)
           /\ orders' = IF ev.outcome = "sell"
                        THEN Append(orders, Order(t, "sell", Shares(ev.shares), "limit", px,
                                                  ev.reason, Len(ledger) + 1))
                        ELSE orders
           /\ total_proceeds' = IF ev.outcome = "sell"
                                THEN total_proceeds + Shares(ev.shares) * ev.current_price
                                ELSE total_proceeds
    /\ risk_i' = risk_i + 1
    /\ UNCHANGED <<engine_vars, world_vars, pc, cycle, env_bias, sentiment_data, holdings,
                   rank_list,
                   effective_budget, cost_basis_total, remaining_budget, sig_i,
                   sold_tickers>>

(* the index of the first new_signal entry at or after position i *)
RECURSIVE NextSignal(_, _)
NextSignal(rl, i) ==
    IF i > Len(rl) THEN i
    ELSE IF rl[i].type = "new_signal" THEN i ELSE NextSignal(rl, i + 1)

(* variant: the proceeds of the risk sells are not recycled *)
Recycle_none(remaining, risk_proceeds) == remaining

(* if risk_proceeds > 0: remaining_budget += risk_proceeds *)
Recycle(remaining, risk_proceeds) ==
    IF risk_proceeds > 0 THEN remaining + risk_proceeds ELSE remaining

(* check_portfolio_risks returns; generate_plan takes over the sells and   *)
(* recycles their proceeds.                                                *)
RiskDone ==
    /\ pc = "risk"
    /\ risk_i > Len(holdings)
    /\ sold_tickers' = {orders[i].ticker : i \in 1..Len(orders)}
    /\ remaining_budget' = Recycle(remaining_budget, total_proceeds)
    /\ sig_i' = NextSignal(rank_list, 1)
    /\ pc' = "plan"
    /\ UNCHANGED <<engine_vars, world_vars, ledger, cycle, env_bias, sentiment_data,
                   quoted, price,
                   holdings, rank_list, effective_budget, cost_basis_total,
                   total_proceeds, risk_i, orders, last_eval>>

(* the paths that leave the loop body before fetch_history is called *)
BeforeHistory == {"no price", "cooldown", "max concentration"}

NoHistory == [len |-> 0,  gap |-> 0, d1 |-> 0,  d2 |-> 0,  spread |-> 0]

(* generate_plan's main loop: the body for the next new_signal entry (the  *)
(* holding entries in between are passed over).  px is the price fetched   *)
(* for the ticker if none was fetched yet in this cycle.                   *)
ProcessEntry(px, shape) ==
    /\ pc = "plan"
    /\ sig_i <= Len(rank_list)
    /\ (api \/ shape.len = 0)
    /\ LET item == rank_list[sig_i]
           t == item.ticker
           p == IF t \in quoted THEN price[t] ELSE px
       IN  \E r \in {PlanEntry(item, p, shape, remaining_budget, ledger, sold_tickers,
                                holdings, rank_list, old_ledger, price)} :
           /\ quoted' = quoted \cup {t}
           /\ price' = [price EXCEPT ![t] = p]
           /\ remaining_budget' = r.remaining
           /\ ledger' = r.lg
           /\ sold_tickers' = r.sold
           /\ orders' = orders \o r.new_orders
           /\ last_eval' = [kind |-> "plan", ticker |-> t, item |-> item, path |-> r.path,
                            budget_before |-> remaining_budget,
                            closes |-> IF r.path \in BeforeHistory THEN 0 ELSE shape.len,
                            shape |-> IF r.path \in BeforeHistory THEN NoHistory ELSE shape,
                            emitted |-> r.new_orders]
           /\ pc' = IF r.abort THEN "aborted" ELSE "plan"
    /\ sig_i' = NextSignal(rank_list, sig_i + 1)
    /\ UNCHANGED <<engine_vars, world_vars, cycle, env_bias, sentiment_data, holdings,
                   rank_list,
                   effective_budget, cost_basis_total, total_proceeds, risk_i>>

(* return orders *)
ReturnPlan ==
    /\ pc = "plan"
    /\ sig_i > Len(rank_list)
    /\ pc' = "done"
    /\ UNCHANGED <<engine_vars, world_vars, ledger, cycle, env_bias, sentiment_data,
                   quoted, price,
                   holdings, rank_list, effective_budget, cost_basis_total,
                   remaining_budget, total_proceeds, risk_i, sig_i, orders,
                   sold_tickers, last_eval>>

(* A later call of generate_plan on the same engine, dt hours later: the   *)
(* rows of the finished cycle join the older rows of the ledger; the       *)
(* locals of the finished call are gone.                                   *)
FoldLedger(lg, old, dt) ==
    [t \in Tickers |->
        LET age == get_last_buy_time(lg, old, t)
            sc == get_latest_scores(lg, old, t)
            scored == LastScored(lg, t, Len(lg)) > 0 \/ ~IsNone(old[t].scores)
        IN  [buy_age |-> IF IsNone(age) THEN None
                         ELSE Some(IF Val(age) + dt > GraceHours THEN GraceHours
                                   ELSE Val(age) + dt),
             scores |-> IF scored THEN Some(<<sc.sentiment, sc.duration>>) ELSE None,
             top_price |-> TopPrice(lg, t, 1, old[t].top_price)]]

NextCycle(dt) ==
    /\ pc \in {"done", "aborted"}
    /\ cycle < MaxCycles
    /\ old_ledger' = FoldLedger(ledger, old_ledger, dt)
    /\ ledger' = <<>>
    /\ pc' = "idle"
    /\ env_bias' = 10
    /\ sentiment_data' = <<>>
    /\ quoted' = {}
    /\ price' = [t \in Tickers |-> None]
    /\ holdings' = <<>>
    /\ rank_list' = <<>>
    /\ effective_budget' = 0
    /\ cost_basis_total' = 0
    /\ remaining_budget' = 0
    /\ total_proceeds' = 0
    /\ risk_i' = 1
    /\ sig_i' = 1
    /\ orders' = <<>>
    /\ sold_tickers' = {}
    /\ last_eval' = NoEval
    /\ UNCHANGED <<engine_vars, positions, assets, cycle, trader_vars>>

(* ---------------------------------------------------------------------- *)
(* The inputs the model draws                                              *)
(* ---------------------------------------------------------------------- *)
EnvBiases == {0, 2, 3, 5, 10}

Signal(t, a, s, d) == [ticker |-> t, action |-> a, sentiment_score |-> s, duration_score |-> d]
SigA == Signal("AAA", "Buy", 6, 5)
SigN == Signal("NVDA", "Buy", 3, 4)
SigNN == Signal("NVDA", "Buy", 10, 5)
SigN6 == Signal("NVDA", "Buy", 6, 5)      \* 0.30 = 1.2 x the logged 0.25 of AAA
SigC == Signal("CCC", "Buy", 8, 5)
SigH == Signal("BBB", "Hold", 5, 5)
SignalLists ==
    { <<>>, <<SigN>>, <<SigNN>>, <<SigA>>, <<SigH, SigNN>>, <<SigN, SigNN>>,
      <<SigNN, SigNN>>, <<SigA, SigN>>, <<SigNN, SigA>>, <<SigNN, SigC>>, <<SigN6>> }

(* what the asset lookup does: every ticker active, NVDA not tradable, or   *)
(* the lookup of NVDA raising (asset unknown or broker unreachable)        *)
AllActive == [t \in Tickers |-> "active"]
AssetTables ==
    { AllActive, [AllActive EXCEPT !["NVDA"] = "inactive"],
      [AllActive EXCEPT !["NVDA"] = "raises"] }

Position(sym, q, entry) == [symbol |-> sym, qty |-> q, avg_entry |-> entry]
PositionLists ==
    { <<>>,
      << Position("AAA", 20000, 100) >>,    \* half of it is one share
      << Position("AAA", 40000, 100) >>,
      << Position("AAA", 5000, 100), Position("BBB", 40000, 100) >>,
      << Position("AAA", -20000, 100), Position("BBB", 40000, 100) >>,   \* AAA is short
      << Position("AAA", 40000, 100), Position("BBB", 40000, 100) >>,
      << Position("AAA", 60000, 100), Position("BBB", 40000, 100) >>,
      << Position("AAA", 40000, 100), Position("CCC", 20000, 40) >>,
      << Position("AAA", 8500001, 1) >> }   \* cost basis 850.0001

Blank == [buy_age |-> None, scores |-> None, top_price |-> None]
Logged(age, s, d) == [buy_age |-> Some(age), scores |-> Some(<<s, d>>), top_price |-> Some(100)]
LedgerWorlds ==
    { [t \in Tickers |-> Blank],
      [t \in Tickers |-> IF t = "AAA" THEN Logged(24, 5, 5)
                         ELSE IF t = "BBB" THEN Logged(10, 8, 5) ELSE Blank],
      [t \in Tickers |-> IF t = "AAA" THEN Logged(10, 8, 5)
                         ELSE IF t = "BBB" THEN Blank ELSE Logged(1, 3, 4)] }

PriceChoices(t) ==
    IF t = "AAA" THEN {None, Some(-5), Some(90), Some(97), Some(106), Some(112)}
    ELSE IF t = "BBB" THEN {Some(90), Some(100)}
    ELSE IF t = "NVDA" THEN {None, Some(40), Some(150)}
    ELSE {Some(40)}

FlatHistory == [len |-> 52, gap |-> 0, d1 |-> 0,  d2 |-> 0,  spread |-> 1]

InitWith(plists, worlds, clients) ==
    /\ api \in clients
    /\ atr_multiplier = RInt(2)
    /\ panic_mode = FALSE
    /\ ticker_cache = [t \in Tickers |-> None]
    /\ lookups = [t \in Tickers |-> 0]
    /\ answers = [t \in Tickers |-> <<>>]
    /\ positions \in (IF api THEN plists ELSE {<<>>})
    /\ assets = [t \in Tickers |-> "active"]
    /\ old_ledger \in worlds
    /\ ledger = <<>>
    /\ pc = "idle"
    /\ cycle = 0
    /\ env_bias = 10
    /\ sentiment_data = <<>>
    /\ quoted = {}
    /\ price = [t \in Tickers |-> None]
    /\ holdings = <<>>
    /\ rank_list = <<>>
    /\ effective_budget = 0
    /\ cost_basis_total = 0
    /\ remaining_budget = 0
    /\ total_proceeds = 0
    /\ risk_i = 1
    /\ sig_i = 1
    /\ orders = <<>>
    /\ sold_tickers = {}
    /\ last_eval = NoEval
    /\ exec_i = 1
    /\ submitted = <<>>
    /\ execution = <<>>

RiskTicker == IF risk_i <= Len(holdings) THEN holdings[risk_i].ticker ELSE "AAA"
PlanTicker == IF sig_i <= Len(rank_list) THEN rank_list[sig_i].ticker ELSE "AAA"

(* Spec: one planning cycle, every signal list, price and history for the  *)
(* new signals; the holdings have no history or a flat one.                *)
Init == InitWith(PositionLists, LedgerWorlds, BOOLEAN)
(* without a client no lookup is made: one table stands for all *)
LookupChoices == IF api THEN AssetTables ELSE {AllActive}
StartCycle ==
    \E eb \in EnvBiases, sd \in SignalLists, as \in LookupChoices : BeginCycle(eb, sd, as)
RiskStep ==
    \E px \in PriceChoices(RiskTicker), shape \in {NoHistory, FlatHistory} :
        CheckHolding(px, shape)
FetchChoices(t) == IF t \in quoted THEN {price[t]} ELSE PriceChoices(t)
PlanStep ==
    \E px \in FetchChoices(PlanTicker), shape \in HistShapes : ProcessEntry(px, shape)

Next == StartCycle \/ RiskStep \/ RiskDone \/ PlanStep \/ ReturnPlan

Spec == Init /\ [][Next]_vars

(* SpecRisk: successive cycles on one engine, every price and history for  *)
(* the holdings; at most one new signal.                                   *)
InitRisk ==
    InitWith({ << Position("AAA", 40000, 100), Position("BBB", 40000, 100) >> }, LedgerWorlds, {TRUE})
StartRiskCycle ==
    \E eb \in EnvBiases, sd \in {<<>>, <<SigNN>>} : BeginCycle(eb, sd, AllActive)
HoldingPrices(t) == IF t = "AAA" THEN PriceChoices(t) ELSE {Some(90)}
HoldingShapes(t) == IF t = "AAA" THEN HistShapes ELSE {FlatHistory}
EvaluateHolding ==
    \E px \in HoldingPrices(RiskTicker), shape \in HoldingShapes(RiskTicker) :
        CheckHolding(px, shape)
PlanOne == ProcessEntry(Some(40), NoHistory)
Again == \E dt \in {1, 24} : NextCycle(dt)

NextRisk == StartRiskCycle \/ EvaluateHolding \/ RiskDone \/ PlanOne \/ ReturnPlan \/ Again

SpecRisk == InitRisk /\ [][NextRisk]_vars

(* SpecRank: the ranking step alone, for every list of up to MaxSignals    *)
(* signals, ties between signals and between signals and holdings included. *)
SigA4 == Signal("AAA", "Buy", 8, 5)
RankSignals == {SigN, SigC, SigH, SigA4}
RankSignalLists ==
    UNION {[1..n -> RankSignals] : n \in 0..MaxSignals}
StartRankCycle ==
    \E eb \in {3, 10}, sd \in RankSignalLists, as \in LookupChoices : BeginCycle(eb, sd, as)
NextRank == StartRankCycle
SpecRank == Init /\ [][NextRank]_vars

(* SpecInd: the indicator functions alone, applied to a missing history    *)
(* and to every history of 0..MaxBars bars of three shapes.                *)
BarSeries ==
    {None} \cup
    { Some(MkSeries(n, px, d[1], d[2], 1)) :
        n \in 0..MaxBars, px \in {40, 100}, d \in {<<0, 0>>, <<-3, 2>>, <<1, 0>>} }
InitInd ==
    /\ InitWith({<<>>}, {[t \in Tickers |-> Blank]}, {TRUE})
    /\ pc = "idle"
Measure(ohlc) ==
    /\ pc = "idle"
    /\ last_eval.kind = "none"
    /\ last_eval' =
          [kind |-> "indicators",
           ohlc |-> ohlc,
           atr_14 |-> calculate_atr(ohlc, atr_period),
           rsi |-> IF IsNone(ohlc) THEN None ELSE calculate_rsi(CloseSeries(Val(ohlc)), 14),
           sma_20 |-> IF IsNone(ohlc) THEN None ELSE calculate_sma(CloseSeries(Val(ohlc)), 20),
           sma_50 |-> IF IsNone(ohlc) THEN None ELSE calculate_sma(CloseSeries(Val(ohlc)), 50)]
    /\ UNCHANGED <<engine_vars, world_vars, ledger, pc, cycle, env_bias, sentiment_data,
                   quoted, price, holdings, rank_list, effective_budget, cost_basis_total,
                   remaining_budget, total_proceeds, risk_i, sig_i, orders, sold_tickers>>
MeasureAny == \E ohlc \in BarSeries : Measure(ohlc)
NextInd == MeasureAny
SpecInd == InitInd /\ [][NextInd]_vars

(* ---------------------------------------------------------------------- *)
(* Trader (src/trader.py, execute_trades)                                 *)
(* ---------------------------------------------------------------------- *)
(* client.get_open_position(ticker): the quantity of the live position in  *)
(* 1/QtyScale share, None when the call raises for want of a position     *)
get_open_position(live, t) ==
    LET idx == {i \in 1..Len(live) : live[i].symbol = t}
    IN  IF idx = {} THEN None ELSE Some(live[CHOOSE i \in idx : TRUE].qty)

(* round(float(limit_price) * 0.995, 2) for a sell and * 1.005 for a buy,  *)
(* in cents                                                                *)
BufferedLimit(action, limit_price) ==
    IF action = "sell" THEN RoundHalfEven(limit_price * 995, 10)
    ELSE RoundHalfEven(limit_price * 1005, 10)

(* what update_execution records for a polled order status *)
PolledStatus(fill_status) ==
    IF fill_status = "partially_filled" THEN "partial_fill" ELSE fill_status

(* variant: a sell is submitted with the planned quantity *)
CappedQty_planned(qty, current_qty) == qty

(* if qty > current_qty: qty = current_qty *)
CappedQty(qty, current_qty) == IF qty > current_qty THEN current_qty ELSE qty

(* variant: safe hold is not enforced on buys *)
RejectsBuy_never(safe_hold_mode, reason) == FALSE

(* if safe_hold_mode or 'BRAIN_OFFLINE_PROTECTION' in reason *)
RejectsBuy(safe_hold_mode, reason) == safe_hold_mode \/ reason = "BRAIN_OFFLINE_PROTECTION"

(* The loop body of execute_trades for one order: the request submitted    *)
(* (none or one) and the update_execution calls, in order.  mark(st) is    *)
(* the call made only for an order that has a decision id; broker is what  *)
(* submit_order and the poll after it do: "raises", "poll_raises" or the   *)
(* polled status.                                                          *)
TradeOrder(order, live, safe_hold_mode, broker) ==
    LET qty == order.quantity
        mark(st) == IF order.decision_id # 0 THEN << [decision_id |-> order.decision_id,
                                                      status |-> st] >>
                    ELSE <<>>
        nothing == [requests |-> <<>>, updates |-> <<>>, path |-> "invalid"]
    IN
    IF ~(qty > 0) THEN nothing
    ELSE IF order.action = "buy" /\ RejectsBuy(safe_hold_mode, order.reason)
    THEN [nothing EXCEPT !.updates = mark("rejected_safe_hold_mode"), !.path = "safe hold"]
    ELSE
    LET is_fractional == qty < QtyScale
        current == IF order.action = "sell" THEN get_open_position(live, order.ticker)
                   ELSE Some(0)
    IN
    IF order.action = "sell" /\ (IsNone(current) \/ Val(current) <= 0)
    THEN [nothing EXCEPT !.updates = mark("skipped_no_position"), !.path = "no position"]
    ELSE
    LET q == IF order.action = "sell" THEN CappedQty(qty, Val(current)) ELSE qty
        order_type == IF is_fractional /\ order.order_type # "market" THEN "market"
                      ELSE order.order_type
        limit == order_type = "limit" /\ ~IsNone(order.limit_price)
                     /\ Val(order.limit_price) # 0
        request == [symbol |-> order.ticker, qty |-> q,
                    side |-> IF order.action = "buy" THEN "BUY" ELSE "SELL",
                    type |-> IF limit THEN "limit" ELSE "market",
                    limit_price |-> IF limit
                                    THEN Some(BufferedLimit(order.action, Val(order.limit_price)))
                                    ELSE None]
    IN  [requests |-> <<request>>,
         updates |-> IF broker = "raises" THEN mark("rejected")
                     ELSE IF broker = "poll_raises" THEN mark("submitted")
                     ELSE mark("submitted") \o mark(PolledStatus(broker)),
         path |-> "submitted"]

(* for order in orders: one iteration *)
ExecuteOrder(broker) ==
    /\ pc = "trade"
    /\ exec_i <= Len(orders)
    /\ LET r == TradeOrder(orders[exec_i], positions, env_bias = 0, broker)
       IN  /\ submitted' = submitted \o r.requests
           /\ execution' = execution \o r.updates
           /\ last_eval' = [kind |-> "trade", order |-> orders[exec_i], path |-> r.path,
                            requests |-> r.requests, updates |-> r.updates]
    /\ exec_i' = exec_i + 1
    /\ UNCHANGED <<engine_vars, positions, assets, old_ledger, ledger, pc, cycle, env_bias,
                   sentiment_data, quoted, price, holdings, rank_list, effective_budget,
                   cost_basis_total, remaining_budget, total_proceeds, risk_i, sig_i,
                   orders, sold_tickers>>

(* the loop is over: backup_db and return *)
FinishTrades ==
    /\ pc = "trade"
    /\ exec_i > Len(orders)
    /\ pc' = "traded"
    /\ UNCHANGED <<engine_vars, world_vars, ledger, cycle, env_bias, sentiment_data, quoted,
                   price, holdings, rank_list, effective_budget, cost_basis_total,
                   remaining_budget, total_proceeds, risk_i, sig_i, orders, sold_tickers,
                   last_eval>>

(* SpecTrade: execute_trades on an execution plan of the shape             *)
(* generate_plan writes, against live positions that may differ from the   *)
(* ones the plan was made for, with the global_env_bias of                 *)
(* sentiment_data.json at 0.0, 0.5 or 1.0.                                 *)
SellA4 == Order("AAA", "sell", Shares(4), "limit", Some(100), "Hard Stop-Loss", 1)
SellB2 == Order("BBB", "sell", Shares(2), "limit", Some(100), "Partial Swap", 2)
SellB2x == Order("BBB", "sell", Shares(2), "limit", Some(100), "Partial Swap", 0)
BuyN1 == Order("NVDA", "buy", Shares(1), "limit", Some(40), "Holistic Buy", 3)
BuyN1x == Order("NVDA", "buy", Shares(1), "limit", Some(40), "Holistic Buy", 0)
BuyNf == Order("NVDA", "buy", 6467, "market", None, "Swap Buy", 3)
BuyC5 == Order("CCC", "buy", Shares(5), "limit", Some(40), "Swap Buy", 4)

Plans ==
    { <<SellA4>>, <<BuyN1>>, <<BuyN1x>>, <<SellA4, BuyN1>>, <<SellB2, BuyNf>>,
      <<SellB2x, BuyN1x>>, <<SellA4, SellB2, BuyC5>>, <<SellA4, BuyN1, SellB2, BuyC5>> }

LivePositions ==
    { <<>>,
      << Position("AAA", Shares(4), 100), Position("BBB", Shares(4), 100) >>,
      << Position("AAA", Shares(3), 100), Position("BBB", 15000, 100) >>,
      << Position("AAA", 0, 100), Position("BBB", Shares(2), 100) >>,
      << Position("AAA", -Shares(4), 100), Position("BBB", 5000, 100) >> }

BrokerReplies == {"filled", "partially_filled", "cancelled", "accepted", "raises", "poll_raises"}

InitTrade ==
    /\ api = TRUE
    /\ atr_multiplier = RInt(2)
    /\ panic_mode = FALSE
    /\ ticker_cache = [t \in Tickers |-> None]
    /\ lookups = [t \in Tickers |-> 0]
    /\ answers = [t \in Tickers |-> <<>>]
    /\ positions \in LivePositions
    /\ assets = [t \in Tickers |-> "active"]
    /\ old_ledger = [t \in Tickers |-> Blank]
    /\ ledger = <<>>
    /\ pc = "trade"
    /\ cycle = 1
    /\ env_bias \in {0, 5, 10}
    /\ sentiment_data = <<>>
    /\ quoted = {}
    /\ price = [t \in Tickers |-> None]
    /\ holdings = <<>>
    /\ rank_list = <<>>
    /\ effective_budget = 0
    /\ cost_basis_total = 0
    /\ remaining_budget = 0
    /\ total_proceeds = 0
    /\ risk_i = 1
    /\ sig_i = 1
    /\ orders \in Plans
    /\ sold_tickers = {}
    /\ last_eval = NoEval
    /\ exec_i = 1
    /\ submitted = <<>>
    /\ execution = <<>>

ExecuteNext == \E broker \in BrokerReplies : ExecuteOrder(broker)

NextTrade == ExecuteNext \/ FinishTrades

SpecTrade == InitTrade /\ [][NextTrade]_vars

(* SpecValid: validate_ticker called directly on one engine, any number of *)
(* times up to MaxCalls per ticker, get_asset answering differently from   *)
(* call to call.                                                           *)
AssetOutcomes == {"active", "inactive", "raises"}

InitValid == InitWith({<<>>}, {[t \in Tickers |-> Blank]}, BOOLEAN)

Validate(t, outcome) ==
    /\ pc = "idle"
    /\ cycle = 0
    /\ Len(answers[t]) < MaxCalls
    /\ LET v == validate_ticker(ticker_cache, t,
                                [api |-> api, asset |-> [assets EXCEPT ![t] = outcome]])
           e == Validated([cache |-> ticker_cache, lookups |-> lookups, answers |-> answers],
                          t, v)
       IN  /\ ticker_cache' = e.cache
           /\ lookups' = e.lookups
           /\ answers' = e.answers
           /\ last_eval' = [kind |-> "validate", ticker |-> t, outcome |-> outcome,
                            valid |-> v.valid]
    /\ UNCHANGED <<api, atr_multiplier, panic_mode, world_vars, ledger, pc, cycle, env_bias,
                   sentiment_data, quoted, price, holdings, rank_list, effective_budget,
                   cost_basis_total, remaining_budget, total_proceeds, risk_i, sig_i,
                   orders, sold_tickers>>

ValidateAny == \E t \in {"NVDA", "CCC"}, outcome \in AssetOutcomes : Validate(t, outcome)

NextValid == ValidateAny

SpecValid == InitValid /\ [][NextValid]_vars

(* ---------------------------------------------------------------------- *)
(* Properties                                                              *)
(* ---------------------------------------------------------------------- *)
Planning == pc \in {"plan", "done", "aborted"}
Evaluated == last_eval.kind = "risk" /\ last_eval.outcome # "skip"
Processed == last_eval.kind = "plan"

(* cost of a buy order and proceeds of a sell order, in 1/QtyScale dollar *)
OrderValue(o) == o.quantity * Val(price[o.ticker])
RECURSIVE SumValue(_, _, _)
SumValue(os, action, i) ==
    IF i = 0 THEN 0
    ELSE (IF os[i].action = action THEN OrderValue(os[i]) ELSE 0) + SumValue(os, action, i - 1)

(* C1: in one cycle every buy order costs at most the remaining budget     *)
(* tracked when it is emitted, and the buys together cost at most          *)
(* effective_budget - cost basis at start + recycled proceeds (the         *)
(* proceeds of the cycle's sells), and nothing when that is negative.      *)
C1_BuysWithinBudget ==
    /\ Processed =>
         \A i \in 1..Len(last_eval.emitted) :
            last_eval.emitted[i].action = "buy"
               => OrderValue(last_eval.emitted[i]) <= last_eval.budget_before
    /\ Planning =>
         SumValue(orders, "buy", Len(orders))
            <= Max2(0, effective_budget - cost_basis_total
                          + SumValue(orders, "sell", Len(orders)))

(* C2: with env_bias < 0.5 the order list holds no buy and no swap sell:   *)
(* every order is a sell of the risk check.                                *)
RiskReasons ==
    {"Protected Profit Stop", "ATR Stop", "Hard Stop-Loss", "Trailing Profit Taken",
     "Trend Breakdown"}
C2_DefenseOnlyRiskSells ==
    (pc # "idle" /\ env_bias < 5) =>
        \A i \in 1..Len(orders) :
            orders[i].action = "sell" /\ orders[i].reason \in RiskReasons
C2_DefenseCycleDone ==
    /\ pc = "done" /\ env_bias < 5
    /\ \E i \in 1..Len(sentiment_data) : sentiment_data[i].action = "Buy"
    /\ orders # <<>>

(* C3: within one cycle no ticker receives two sell orders: not one of the *)
(* risk check and one of a swap, and not two of swaps.                     *)
C3_OneSellPerHolding ==
    \A i, j \in 1..Len(orders) :
        (i < j /\ orders[i].action = "sell" /\ orders[j].action = "sell")
            => orders[i].ticker # orders[j].ticker
C3_RiskSellThenSwap ==
    \E i, j \in 1..Len(orders) :
        /\ i < j
        /\ orders[i].action = "sell" /\ orders[i].reason \in RiskReasons
        /\ orders[j].action = "sell" /\ orders[j].reason = "Partial Swap"

(* the conditions of the three triggers for the holding just evaluated,    *)
(* from its prices and indicators                                          *)
EvalInd == Indicators(last_eval.current_price, last_eval.shape)
StopTrigger == RLt(RInt(last_eval.current_price), last_eval.stop_price)
TrailingTrigger ==
    LET peak == IF IsNone(EvalInd.high_5) THEN last_eval.current_price
                ELSE Max2(Val(EvalInd.high_5), last_eval.current_price)
    IN  /\ last_eval.buy_price > 0
        /\ (last_eval.current_price - last_eval.buy_price) * 100
              > trailing_activation_pct * last_eval.buy_price
        /\ last_eval.current_price * 100 < peak * (100 - trailing_drop_pct)
BreakdownTrigger ==
    LET last_buy == get_last_buy_time(ledger, old_ledger, last_eval.ticker)
    IN  /\ Truthy(EvalInd.sma_20) /\ Truthy(EvalInd.sma_50)
        /\ RLt(RInt(last_eval.current_price), Val(EvalInd.sma_20))
        /\ RLt(Val(EvalInd.sma_20), Val(EvalInd.sma_50))
        /\ (panic_mode \/ IsNone(last_buy) \/ Val(last_buy) >= GraceHours)
SellsOf(t) == {i \in 1..Len(orders) : orders[i].ticker = t /\ orders[i].action = "sell"}

(* C4: a holding with shares gets at most one sell order from the risk     *)
(* evaluator, and its reason is that of the first trigger that holds:      *)
(* stop-loss, then trailing take-profit, then trend breakdown.             *)
C4_FirstTriggerWins ==
    Evaluated =>
        /\ Cardinality(SellsOf(last_eval.ticker)) <= 1
        /\ (last_eval.outcome = "sell") = (Cardinality(SellsOf(last_eval.ticker)) = 1)
        /\ (last_eval.outcome = "sell")
              = (StopTrigger \/ TrailingTrigger \/ BreakdownTrigger)
        /\ StopTrigger
              => last_eval.reason \in {"Protected Profit Stop", "ATR Stop", "Hard Stop-Loss"}
        /\ (~StopTrigger /\ TrailingTrigger) => last_eval.reason = "Trailing Profit Taken"
        /\ (~StopTrigger /\ ~TrailingTrigger /\ BreakdownTrigger)
              => last_eval.reason = "Trend Breakdown"
C4_StopBeforeBreakdown ==
    Evaluated /\ StopTrigger /\ BreakdownTrigger /\ last_eval.outcome = "sell"

(* C5: once a risk evaluation saw the holding more than 5% above its       *)
(* entry, a later evaluation at a price below entry x 1.005 sells it with  *)
(* the reason "Protected Profit Stop".                                     *)
C5_ProtectedProfitStop ==
    LET top == old_ledger[last_eval.ticker].top_price IN
    (/\ Evaluated
     /\ ~IsNone(top)
     /\ (Val(top) - last_eval.buy_price) * 100 > 5 * last_eval.buy_price
     /\ last_eval.current_price * 1000 < last_eval.buy_price * 1005)
        => (last_eval.outcome = "sell" /\ last_eval.reason = "Protected Profit Stop")

(* C6: the stop price after the zero-loss override is at least the stop    *)
(* price before it; the override applies only with a gain above 5% and     *)
(* raises the stop to entry x 1.005 only.                                  *)
C6_OverrideOnlyRaises ==
    Evaluated =>
        /\ ~RLt(last_eval.stop_price, last_eval.base_stop)
        /\ last_eval.stop_price # last_eval.base_stop
              => /\ (last_eval.current_price - last_eval.buy_price) * 100
                       > 5 * last_eval.buy_price
                 /\ last_eval.stop_price.n * 1000
                       = last_eval.buy_price * 1005 * last_eval.stop_price.d
C6_OverrideApplied ==
    Evaluated /\ last_eval.zero_loss /\ RLt(last_eval.base_stop, last_eval.stop_price)

(* the entry just processed went past the cooldown, concentration and      *)
(* technical filters                                                       *)
PassedFilters ==
    Processed /\ last_eval.path \in {"Holistic Buy", "Fractional Gap-Fill", "nothing", "swap"}
TargetTradeValue == (Money(TOTAL_BUDGET) * RISK_PER_TRADE_PERCENT) \div 100

(* C7: an entry that passes the filters with target_trade_value / price    *)
(* < 1, remaining_budget >= price and a concentration cap of at least one  *)
(* share gets a limit buy of exactly 1 share.                              *)
C7_MinimumOneShare ==
    LET p == Val(price[last_eval.ticker]) IN
    (/\ PassedFilters
     /\ TargetTradeValue < Money(p)
     /\ last_eval.budget_before >= Money(p)
     /\ (TOTAL_BUDGET * MAX_CONCENTRATION_PERCENT) \div (100 * p) >= 1)
        => /\ Len(last_eval.emitted) = 1
           /\ last_eval.emitted[1].action = "buy"
           /\ last_eval.emitted[1].ticker = last_eval.ticker
           /\ last_eval.emitted[1].order_type = "limit"
           /\ last_eval.emitted[1].quantity = Shares(1)

(* shares of t held at the start of the cycle and bought during it, in     *)
(* 1/QtyScale share                                                        *)
HeldAtStart(t) ==
    LET idx == {i \in 1..Len(holdings) : holdings[i].ticker = t}
    IN  IF idx = {} THEN 0 ELSE holdings[CHOOSE i \in idx : TRUE].qty
RECURSIVE Bought(_, _, _)
Bought(os, t, i) ==
    IF i = 0 THEN 0
    ELSE (IF os[i].action = "buy" /\ os[i].ticker = t THEN os[i].quantity ELSE 0)
         + Bought(os, t, i - 1)

(* C8: for every ticker bought, the shares held at the start of the cycle  *)
(* plus the shares bought for it are at most                               *)
(* floor(total_budget x max_concentration_pct / price).                    *)
C8_ConcentrationCap ==
    \A t \in Tickers :
        Bought(orders, t, Len(orders)) > 0
            => HeldAtStart(t) + Bought(orders, t, Len(orders))
                  <= Shares((TOTAL_BUDGET * MAX_CONCENTRATION_PERCENT)
                               \div (100 * Val(price[t])))

(* C9: no ticker appears in two entries of the ranked list.                *)
C9_RankListUnique ==
    \A i, j \in 1..Len(rank_list) : i # j => rank_list[i].ticker # rank_list[j].ticker

(* C10: a history too short for RSI or SMA20 never aborts the cycle: the   *)
(* entry goes on to sizing.                                                *)
C10_ShortHistoryTolerated ==
    (/\ Processed
     /\ last_eval.closes > 0 /\ last_eval.closes < 20
     /\ last_eval.path \notin {"no price", "cooldown", "max concentration"})
        => (pc # "aborted" /\ PassedFilters)

(* C11: a negative price, of a new signal or of a holding, ends the cycle  *)
(* without an order list, and no order carries a price or limit price      *)
(* that is not positive.                                                   *)
NegativeQuoted == \E t \in quoted : ~IsNone(price[t]) /\ Val(price[t]) < 0
C11_NegativePriceAborts ==
    /\ (NegativeQuoted /\ Planning) => pc = "aborted"
    /\ \A i \in 1..Len(orders) :
          IsNone(orders[i].limit_price) \/ Val(orders[i].limit_price) > 0

(* C12: when the cycle returns, every new_signal entry of the ranked list  *)
(* has at least one decision record, BUY or SKIP, in the ledger.           *)
C12_EverySignalLogged ==
    pc = "done" =>
        \A i \in 1..Len(rank_list) :
            rank_list[i].type = "new_signal"
                => \E j \in 1..Len(ledger) :
                      /\ ledger[j].ticker = rank_list[i].ticker
                      /\ ledger[j].action \in {"BUY", "SKIP"}

(* C13: when the risk evaluator has gone through the holdings, each        *)
(* holding with at least one whole share has exactly one HOLD or SELL      *)
(* record of this cycle, whatever path its evaluation took.                *)
RiskRecords(t) ==
    {j \in 1..Len(ledger) : ledger[j].ticker = t /\ ledger[j].action \in {"HOLD", "SELL"}}
C13_OneRecordPerHolding ==
    (pc = "risk" /\ risk_i > Len(holdings)) =>
        \A i \in 1..Len(holdings) :
            holdings[i].qty >= QtyScale
                => Cardinality(RiskRecords(holdings[i].ticker)) = 1

(* C14: validate_ticker answers True whenever the broker cannot be         *)
(* reached, with no client and with an asset lookup that raises alike: the *)
(* candidate gets its new_signal entry in the ranked list.                 *)
Unreachable(t) == ~api \/ assets[t] = "raises"
C14_ValidatorFailsOpen ==
    (pc # "idle" /\ cycle = 1 /\ env_bias >= 5) =>
        \A i \in 1..Len(sentiment_data) :
            LET sg == sentiment_data[i] IN
            (sg.action = "Buy" /\ Unreachable(sg.ticker))
                => /\ ticker_cache[sg.ticker] = Some(TRUE)
                   /\ \E k \in 1..Len(rank_list) :
                         /\ rank_list[k].ticker = sg.ticker
                         /\ rank_list[k].type = "new_signal"

(* C15: a holding is sold for "Trend Breakdown" only when SMA20 and SMA50  *)
(* are both available and price < SMA20 < SMA50; with SMA50 unavailable,   *)
(* or with only one of the inequalities, no trend-breakdown sell is made.  *)
BothAveragesBelow ==
    /\ Truthy(EvalInd.sma_20) /\ Truthy(EvalInd.sma_50)
    /\ RLt(RInt(last_eval.current_price), Val(EvalInd.sma_20))
    /\ RLt(Val(EvalInd.sma_20), Val(EvalInd.sma_50))
C15_BreakdownNeedsBothAverages ==
    Evaluated =>
        \/ BothAveragesBelow
        \/ /\ last_eval.reason # "Trend Breakdown"
           /\ \A i \in SellsOf(last_eval.ticker) : orders[i].reason # "Trend Breakdown"
C15_HeldWithoutSMA50 ==
    /\ Evaluated
    /\ Truthy(EvalInd.sma_20) /\ ~Truthy(EvalInd.sma_50)
    /\ RLt(RInt(last_eval.current_price), Val(EvalInd.sma_20))
    /\ LET last_buy == get_last_buy_time(ledger, old_ledger, last_eval.ticker)
       IN  panic_mode \/ IsNone(last_buy) \/ Val(last_buy) >= GraceHours
    /\ last_eval.outcome = "hold"
    /\ SellsOf(last_eval.ticker) = {}

(* C16: a holding whose last BUY is less than 24 hours old, evaluated with *)
(* panic mode off, price < SMA20 < SMA50 and neither the stop-loss nor the *)
(* trailing take-profit firing, gets a HOLD record with a grace-period     *)
(* reason, no sell order, and adds nothing to the proceeds.                *)
FreshHolding ==
    LET last_buy == get_last_buy_time(ledger, old_ledger, last_eval.ticker)
    IN  ~IsNone(last_buy) /\ Val(last_buy) < GraceHours
C16_GracePeriodHolds ==
    (/\ Evaluated /\ FreshHolding /\ ~panic_mode
     /\ BothAveragesBelow /\ ~StopTrigger /\ ~TrailingTrigger)
        => /\ Len(ledger) > 0
           /\ ledger[Len(ledger)].ticker = last_eval.ticker
           /\ ledger[Len(ledger)].action = "HOLD"
           /\ ledger[Len(ledger)].decision_reason = "Grace Period"
           /\ SellsOf(last_eval.ticker) = {}
           /\ total_proceeds = SumValue(orders, "sell", Len(orders))
C16_GraceApplied ==
    /\ Evaluated /\ FreshHolding /\ ~panic_mode
    /\ BothAveragesBelow /\ ~StopTrigger /\ ~TrailingTrigger
    /\ last_eval.outcome = "grace"
    /\ total_proceeds = 0

(* C17: in a cycle with env_bias < 0.3 a holding bought less than 24 hours *)
(* ago with price < SMA20 < SMA50, and no stop-loss or trailing trigger,   *)
(* is sold for trend breakdown; in every cycle with env_bias >= 0.3, a     *)
(* cycle after a panic cycle on the same engine included, it is held       *)
(* under the grace period.                                                 *)
C17_PanicLiftsGrace ==
    (/\ Evaluated /\ FreshHolding
     /\ BothAveragesBelow /\ ~StopTrigger /\ ~TrailingTrigger)
        => IF env_bias < 3
           THEN /\ last_eval.outcome = "sell"
                /\ \E i \in SellsOf(last_eval.ticker) : orders[i].reason = "Trend Breakdown"
           ELSE /\ last_eval.outcome = "grace"
                /\ SellsOf(last_eval.ticker) = {}
C17_GraceAfterPanic ==
    /\ cycle = 2 /\ env_bias >= 5
    /\ atr_multiplier = RInt(1)
    /\ Evaluated /\ FreshHolding
    /\ BothAveragesBelow /\ ~StopTrigger /\ ~TrailingTrigger
    /\ last_eval.outcome = "grace"

(* C18: in every cycle the ATR multiplier in use is the base 2.0 times 0.5 *)
(* when env_bias = 0, times 0.7 when 0 < env_bias < 0.5, and the base      *)
(* itself otherwise, whatever cycles the engine ran before.                *)
C18_MultiplierPerCycle ==
    pc # "idle" =>
        atr_multiplier = IF env_bias = 0 THEN Rat(2 * 5, 10)
                         ELSE IF env_bias < 5 THEN Rat(2 * 7, 10)
                         ELSE RInt(2)

(* C19: a new signal whose ticker has a BUY in the ledger less than 4      *)
(* hours old produces no buy order and no swap, and a SKIP record with the *)
(* cooldown reason is logged for it.                                       *)
RecentBuy(t) == ~IsNone(old_ledger[t].buy_age) /\ Val(old_ledger[t].buy_age) < CooldownHours
C19_CooldownSkips ==
    (Processed /\ RecentBuy(last_eval.ticker))
        => /\ last_eval.emitted = <<>>
           /\ Len(ledger) > 0
           /\ ledger[Len(ledger)].ticker = last_eval.ticker
           /\ ledger[Len(ledger)].action = "SKIP"
           /\ ledger[Len(ledger)].decision_reason = "cooldown"

Keyed(seq) == [i \in DOMAIN seq |-> <<seq[i].ticker, seq[i].type, seq[i].rank_score>>]
InsertedSignals ==
    LET Wanted(sg) == /\ env_bias >= 5
                      /\ sg.action = "Buy"
                      /\ (~api \/ assets[sg.ticker] = "active")
        sel == SelectSeq(sentiment_data, Wanted)
    IN  [i \in DOMAIN sel |->
            <<sel[i].ticker, "new_signal", sel[i].sentiment_score * sel[i].duration_score>>]
InsertedHoldings ==
    LET Held(h) == h.qty > 0
        sel == SelectSeq(holdings, Held)
    IN  [i \in DOMAIN sel |->
            LET sc == get_latest_scores(ledger, old_ledger, sel[i].ticker)
            IN  <<sel[i].ticker, "holding", sc.sentiment * sc.duration>>]
WithScore(seq, s) == LET Has(k) == k[3] = s IN SelectSeq(seq, Has)
C21_RankedStable ==
    (pc = "risk" /\ risk_i = 1 /\ cycle = 1) =>
        /\ \A i, j \in 1..Len(rank_list) :
              i < j => rank_list[i].rank_score >= rank_list[j].rank_score
        /\ Len(rank_list) = Len(InsertedSignals) + Len(InsertedHoldings)
        /\ \A i \in 1..Len(rank_list) :
              WithScore(Keyed(rank_list), rank_list[i].rank_score)
                 = WithScore(InsertedSignals \o InsertedHoldings, rank_list[i].rank_score)
C21_TiesInOrder ==
    /\ pc # "idle"
    /\ \E i, j, k \in 1..Len(rank_list) :
          /\ i < j /\ j < k
          /\ rank_list[i].rank_score = rank_list[k].rank_score
          /\ rank_list[j].rank_score = rank_list[k].rank_score
          /\ rank_list[i].type = "new_signal" /\ rank_list[j].type = "new_signal"
          /\ rank_list[i].ticker # rank_list[j].ticker
          /\ rank_list[k].type = "holding"
    /\ \E i, j \in 1..Len(rank_list) :
          rank_list[i].rank_score > rank_list[j].rank_score

(* C22: every buy order with a fractional quantity is a market order       *)
(* without a limit price, and every buy order for a whole number of shares *)
(* is a limit order whose limit price is the signal's price.               *)
C22_OrderTypeByQuantity ==
    \A i \in 1..Len(orders) :
        orders[i].action = "buy" =>
            IF orders[i].quantity % QtyScale # 0
            THEN orders[i].order_type = "market" /\ IsNone(orders[i].limit_price)
            ELSE /\ orders[i].order_type = "limit"
                 /\ orders[i].limit_price = price[orders[i].ticker]

(* C23: every order planned has a quantity greater than 0: risk sells,     *)
(* swap sells, whole-share buys, fractional buys and swap buys.            *)
C23_PositiveQuantities ==
    \A i \in 1..Len(orders) : orders[i].quantity > 0
C23_EveryKindOfOrder ==
    /\ pc = "done"
    /\ \E i \in 1..Len(orders) : orders[i].action = "sell" /\ orders[i].reason \in RiskReasons
    /\ \E i \in 1..Len(orders) : orders[i].reason = "Partial Swap"
    /\ \E i \in 1..Len(orders) : orders[i].reason = "Swap Buy"
    /\ \E i \in 1..Len(orders) : orders[i].reason = "Fractional Gap-Fill"

(* C24: calculate_atr gives None for a missing history and for every       *)
(* history of fewer than period + 1 bars; the RSI is None below            *)
(* period + 1 closes and an SMA below period closes.                       *)
Measured == last_eval.kind = "indicators"
BarCount == IF IsNone(last_eval.ohlc) THEN 0 ELSE Len(Val(last_eval.ohlc))
C24_ShortSeriesUnavailable ==
    Measured =>
        /\ (IsNone(last_eval.ohlc) \/ BarCount < atr_period + 1) => IsNone(last_eval.atr_14)
        /\ BarCount < 14 + 1 => IsNone(last_eval.rsi)
        /\ BarCount < 20 => IsNone(last_eval.sma_20)
        /\ BarCount < 50 => IsNone(last_eval.sma_50)
C24_OneBarShort ==
    /\ Measured
    /\ BarCount = atr_period
    /\ IsNone(last_eval.atr_14) /\ IsNone(last_eval.rsi)
    /\ \E i \in 1..BarCount : Val(last_eval.ohlc)[i].close # Val(last_eval.ohlc)[1].close

(* C25: one new_signal entry produces at most one buy order and at most    *)
(* one swap sell; an entry that got a sizing buy, whole or fractional,     *)
(* produces no swap.                                                       *)
EmittedWith(action) ==
    {i \in 1..Len(last_eval.emitted) : last_eval.emitted[i].action = action}
SizingReasons == {"Holistic Buy", "Fractional Gap-Fill"}
C25_OneSwapOneBuy ==
    Processed =>
        /\ Cardinality(EmittedWith("buy")) <= 1
        /\ Cardinality(EmittedWith("sell")) <= 1
        /\ \A i \in EmittedWith("sell") : last_eval.emitted[i].reason = "Partial Swap"
        /\ \A i \in EmittedWith("buy") :
              IF last_eval.emitted[i].reason \in SizingReasons
              THEN EmittedWith("sell") = {}
              ELSE /\ last_eval.emitted[i].reason = "Swap Buy"
                   /\ Cardinality(EmittedWith("sell")) = 1
C25_BuyWhereSwapPossible ==
    /\ Processed
    /\ last_eval.path \in SizingReasons
    /\ Len(last_eval.emitted) = 1
    /\ FindSwap(rank_list, Len(rank_list), last_eval.item.rank_score, sold_tickers) # 0

(* C26: a holding with a score above 0.01 qualifies for a swap exactly     *)
(* when the new signal's score is at least 1.2 times its score, the        *)
(* boundary included; a holding with a score of at most 0.01 exactly when  *)
(* the new score exceeds 0.1.                                              *)
Qualifies(new_rank, old_rank) ==
    IF old_rank > 1 THEN new_rank * 10 >= old_rank * 12 ELSE new_rank > 10
HoldingEntries == {k \in 1..Len(rank_list) : rank_list[k].type = "holding"}
C26_SwapThreshold ==
    Processed =>
        /\ last_eval.path = "nothing"
              => \A k \in HoldingEntries :
                    (rank_list[k].ticker \notin sold_tickers /\ SwapQty(rank_list[k].qty) > 0)
                        => ~Qualifies(last_eval.item.rank_score, rank_list[k].rank_score)
        /\ last_eval.path = "swap"
              => \E k \in HoldingEntries :
                    /\ rank_list[k].ticker = last_eval.emitted[1].ticker
                    /\ Qualifies(last_eval.item.rank_score, rank_list[k].rank_score)

(* C27: the holding a swap sells is the lowest-ranked one among the        *)
(* holdings not yet sold in this cycle that meet the improvement threshold *)
(* and of which half, rounded down, is at least one share.                 *)
SwapCandidates(new_rank, swapped) ==
    {k \in HoldingEntries :
        /\ rank_list[k].ticker \notin (sold_tickers \ {swapped})
        /\ ThresholdMet(new_rank, rank_list[k].rank_score)
        /\ SwapQty(rank_list[k].qty) > 0}
C27_LowestRankedSwapped ==
    (Processed /\ last_eval.path = "swap") =>
        LET swapped == last_eval.emitted[1].ticker
            cand == SwapCandidates(last_eval.item.rank_score, swapped)
        IN  \E k \in cand :
                /\ rank_list[k].ticker = swapped
                /\ \A j \in cand : j <= k
                /\ \A j \in cand : rank_list[j].rank_score >= rank_list[k].rank_score
C27_BetterHoldingSpared ==
    /\ Processed /\ last_eval.path = "swap"
    /\ \E j \in SwapCandidates(last_eval.item.rank_score, last_eval.emitted[1].ticker) :
          /\ rank_list[j].ticker # last_eval.emitted[1].ticker
          /\ \E k \in HoldingEntries :
                /\ rank_list[k].ticker = last_eval.emitted[1].ticker
                /\ rank_list[j].rank_score > rank_list[k].rank_score

(* C28: every swap sell is for half of the holding rounded down to whole   *)
(* shares, at least one share and strictly fewer than the holding has; a   *)
(* holding of fewer than two shares is never swap-sold.                    *)
SwapSells == {i \in 1..Len(orders) : orders[i].reason = "Partial Swap"}
HeldQty(t) ==
    LET h == {j \in 1..Len(holdings) : holdings[j].ticker = t}
    IN  IF h = {} THEN 0 ELSE holdings[CHOOSE j \in h : TRUE].qty
C28_SwapSellsHalf ==
    \A i \in SwapSells :
        LET q == orders[i].quantity
            held == HeldQty(orders[i].ticker)
        IN  /\ q % QtyScale = 0
            /\ 2 * q <= held /\ held < 2 * q + 2 * QtyScale
            /\ q >= Shares(1)
            /\ q < held
            /\ held >= Shares(2)
C28_SmallHoldingPassedOver ==
    /\ pc = "done"
    /\ \E i \in SwapSells, j \in 1..Len(holdings) :
          /\ holdings[j].qty < Shares(2)
          /\ holdings[j].ticker \notin sold_tickers
          /\ \E ki, kj \in HoldingEntries :
                /\ rank_list[ki].ticker = orders[i].ticker
                /\ rank_list[kj].ticker = holdings[j].ticker
                /\ ki < kj

(* C29: the buy of a swap costs no more than the proceeds of its sale, for *)
(* a whole-share and for a four-decimal fractional buy alike, and the      *)
(* remaining budget grows by exactly proceeds minus buy cost, hence never  *)
(* shrinks through a swap.                                                 *)
SwapProceeds == last_eval.emitted[1].quantity * Val(price[last_eval.emitted[1].ticker])
SwapBuyCost ==
    IF Len(last_eval.emitted) = 2
    THEN last_eval.emitted[2].quantity * Val(price[last_eval.emitted[2].ticker])
    ELSE 0
C29_SwapBuyWithinProceeds ==
    (Processed /\ last_eval.path = "swap" /\ ~NegativeQuoted) =>
        /\ SwapBuyCost <= SwapProceeds
        /\ remaining_budget = last_eval.budget_before + SwapProceeds - SwapBuyCost
        /\ remaining_budget >= last_eval.budget_before

(* C30: a holding whose unrealized gain is at most 5% is sold with the     *)
(* ATR-stop reason exactly when the ATR is available and the price is      *)
(* below entry - multiplier x ATR(14), and with the hard-stop reason       *)
(* exactly when the ATR is unavailable and the price is below              *)
(* entry x (1 - fixed stop percent).                                       *)
AtrAvailable == ~IsNone(EvalInd.atr_14)
BelowAtrStop ==
    /\ AtrAvailable
    /\ RLt(RInt(last_eval.current_price),
           RSub(RInt(last_eval.buy_price), RMul(atr_multiplier, Val(EvalInd.atr_14))))
BelowFixedStop ==
    /\ ~AtrAvailable
    /\ last_eval.current_price * 100 < last_eval.buy_price * (100 - STOP_LOSS_PERCENT)
C30_StopLossRule ==
    (/\ Evaluated
     /\ last_eval.current_price > 0
     /\ ~GainAbove(last_eval.current_price, last_eval.buy_price, 5)) =>
        /\ (last_eval.outcome = "sell" /\ last_eval.reason = "ATR Stop") = BelowAtrStop
        /\ (last_eval.outcome = "sell" /\ last_eval.reason = "Hard Stop-Loss") = BelowFixedStop

(* C31: a trailing take-profit sell is emitted only when the stop-loss did *)
(* not trigger, the unrealized gain is above 10% and the price is below    *)
(* 97% of the larger of the price and the highest high of the last five    *)
(* bars; a holding with a gain of at most 10% never gets one.              *)
TrailingSold == last_eval.outcome = "sell" /\ last_eval.reason = "Trailing Profit Taken"
PeakOfFive ==
    IF IsNone(EvalInd.high_5) THEN last_eval.current_price
    ELSE Max2(Val(EvalInd.high_5), last_eval.current_price)
C31_TrailingOnlyAfterGain ==
    (Evaluated /\ TrailingSold) =>
        /\ ~StopTrigger
        /\ (last_eval.current_price - last_eval.buy_price) * 10 > last_eval.buy_price
        /\ last_eval.current_price * 100 < 97 * PeakOfFive
C31_TrailingTaken ==
    /\ Evaluated /\ TrailingSold
    /\ \E i \in 1..Len(orders) :
          orders[i].ticker = last_eval.ticker /\ orders[i].reason = "Trailing Profit Taken"

(* C32: a new signal whose price is below SMA20 with SMA20 below SMA50, or *)
(* below SMA20 with SMA50 unavailable, gets no buy and a logged SKIP       *)
(* unless its RSI is below 35 or its rank score is at least 0.5; with      *)
(* either exception the entry is not stopped by the downtrend filter and   *)
(* goes on to sizing.                                                      *)
PlanInd == Indicators(Val(price[last_eval.ticker]), last_eval.shape)
InDowntrend ==
    /\ Processed
    /\ ~IsNone(price[last_eval.ticker])
    /\ PlanInd.has_ohlc
    /\ ~IsNone(PlanInd.sma_20)
    /\ RLt(RInt(Val(price[last_eval.ticker])), Val(PlanInd.sma_20))
    /\ (IsNone(PlanInd.sma_50) \/ RLt(Val(PlanInd.sma_20), Val(PlanInd.sma_50)))
Contrarian ==
    \/ (~IsNone(PlanInd.rsi) /\ RsiLT(Val(PlanInd.rsi), 35))
    \/ last_eval.item.rank_score >= 50
StoppedEarlier == last_eval.path \in {"cooldown", "max concentration", "technicals weak"}
C33_ValidateMemoized ==
    \A t \in Tickers :
        /\ lookups[t] <= 1
        /\ \A i \in 1..Len(answers[t]) : answers[t][i] = answers[t][1]
C33_AnswerKept ==
    /\ last_eval.kind = "validate"
    /\ last_eval.outcome = "active" /\ ~last_eval.valid
    /\ Len(answers[last_eval.ticker]) = MaxCalls
    /\ lookups[last_eval.ticker] = 1

(* C34: in the order list of a cycle every sell of the risk check comes    *)
(* before every buy, and the sell of a swap stands immediately before the  *)
(* buy it funds.                                                           *)
RiskSells == {i \in 1..Len(orders) : orders[i].action = "sell" /\ orders[i].reason \in RiskReasons}
BuyOrders == {i \in 1..Len(orders) : orders[i].action = "buy"}
C34_SellsBeforeBuys ==
    /\ \A i \in RiskSells, j \in BuyOrders : i < j
    /\ \A j \in BuyOrders :
          orders[j].reason = "Swap Buy"
              => /\ j > 1
                 /\ orders[j - 1].reason = "Partial Swap"
                 /\ orders[j - 1].action = "sell"
    /\ \A i \in SwapSells :
          (i < Len(orders) \/ pc = "done")
              => /\ i < Len(orders)
                 /\ orders[i + 1].reason = "Swap Buy"
C34_SellThenSwap ==
    /\ pc = "done"
    /\ RiskSells # {}
    /\ \E j \in BuyOrders : orders[j].reason \in SizingReasons /\ j + 1 \in SwapSells

(* C35: for every ticker the sell orders of one cycle add up to no more    *)
(* than the quantity held when the cycle started, and no sell order is     *)
(* emitted for a ticker that is not held with a positive quantity.         *)
RECURSIVE Sold(_, _, _)
Sold(os, t, i) ==
    IF i = 0 THEN 0
    ELSE (IF os[i].action = "sell" /\ os[i].ticker = t THEN os[i].quantity ELSE 0)
         + Sold(os, t, i - 1)
C35_NoOversell ==
    \A t \in Tickers :
        /\ Sold(orders, t, Len(orders)) <= Max2(HeldAtStart(t), 0)
        /\ SellsOf(t) # {} => HeldAtStart(t) > 0
C35_ShortLeftAlone ==
    /\ pc = "done"
    /\ \E t \in Tickers : HeldAtStart(t) < 0 /\ SellsOf(t) = {}
    /\ \E t \in Tickers : Sold(orders, t, Len(orders)) = HeldAtStart(t) /\ HeldAtStart(t) > 0
    /\ BuyOrders # {}

(* C36: within one cycle at most one buy order is planned per ticker: once *)
(* a BUY of a ticker is logged, by sizing or by a swap, a later new_signal  *)
(* entry of the same ticker is skipped by the 4-hour cooldown.             *)
BuysOf(t) == {i \in BuyOrders : orders[i].ticker = t}
C36_OneBuyPerTicker ==
    /\ \A t \in Tickers : Cardinality(BuysOf(t)) <= 1
    /\ (/\ Processed
        /\ ~IsNone(price[last_eval.ticker])
        /\ \E i \in BuysOf(last_eval.ticker) : i <= Len(orders) - Len(last_eval.emitted))
          => (last_eval.path = "cooldown" /\ last_eval.emitted = <<>>)
C36_SecondEntrySkipped ==
    /\ Processed
    /\ last_eval.path = "cooldown"
    /\ IsNone(old_ledger[last_eval.ticker].buy_age)
    /\ \E i \in BuysOf(last_eval.ticker) : orders[i].reason = "Swap Buy"

(* C37: a swap never sells and buys the same ticker: the holding of the    *)
(* ticker a Buy signal is for is not the one swap-sold to fund its buy.    *)
C37_SwapAcrossTickers ==
    (Processed /\ last_eval.path = "swap" /\ ~NegativeQuoted) =>
        \A i \in 1..Len(last_eval.emitted) :
            last_eval.emitted[i].action = "sell"
                => last_eval.emitted[i].ticker # last_eval.ticker

(* C38: no buy order of a plan, whole-share sizing buy, fractional         *)
(* gap-fill buy or swap-funded buy, costs more than                        *)
(* total_budget x risk_per_trade_pct.                                      *)
C38_RiskPerTrade ==
    \A i \in BuyOrders :
        orders[i].quantity * Val(price[orders[i].ticker]) <= TargetTradeValue

(* ---------------------------------------------------------------------- *)
(* C39 - C40: the trader                                                  *)
(* ---------------------------------------------------------------------- *)
Traded == last_eval.kind = "trade"

LiveQty(t) == get_open_position(positions, t)

Marked(order, status) ==
    order.decision_id # 0
        => last_eval.updates = << [decision_id |-> order.decision_id, status |-> status] >>

(* C39: the trader never submits a sell larger than the live long         *)
(* position.  A sell of the plan whose broker position is missing or has  *)
(* a quantity <= 0 produces no order request and, when it carries a       *)
(* decision id, is marked 'skipped_no_position'; any other sell produces  *)
(* one SELL request for min(planned quantity, position quantity).  So     *)
(* every SELL request ever submitted is for a positive quantity no larger *)
(* than the position held in its symbol.                                  *)
C39_SellWithinPosition ==
    /\ (Traded /\ last_eval.order.action = "sell") =>
          LET o == last_eval.order
              cur == LiveQty(o.ticker)
          IN  IF IsNone(cur) \/ Val(cur) <= 0
              THEN last_eval.requests = <<>> /\ Marked(o, "skipped_no_position")
              ELSE /\ Len(last_eval.requests) = 1
                   /\ last_eval.requests[1].side = "SELL"
                   /\ last_eval.requests[1].symbol = o.ticker
                   /\ last_eval.requests[1].qty
                          = (IF o.quantity < Val(cur) THEN o.quantity ELSE Val(cur))
    /\ \A i \in DOMAIN submitted :
          submitted[i].side = "SELL" =>
              /\ ~IsNone(LiveQty(submitted[i].symbol))
              /\ submitted[i].qty > 0
              /\ submitted[i].qty <= Val(LiveQty(submitted[i].symbol))

(* C39 witness: the run is over; one sell went out for less than the plan *)
(* asked because the position was smaller, and another sell was skipped   *)
(* and marked because its position was not long.                          *)
C39_SellTrimmedAndSkipped ==
    /\ pc = "traded"
    /\ \E i \in DOMAIN submitted, j \in DOMAIN orders :
          /\ orders[j].action = "sell" /\ orders[j].ticker = submitted[i].symbol
          /\ submitted[i].side = "SELL"
          /\ submitted[i].qty < orders[j].quantity
    /\ \E k \in DOMAIN execution : execution[k].status = "skipped_no_position"

(* global_env_bias of sentiment_data.json is 0.0 *)
SafeHold == env_bias = 0

(* C40: when sentiment_data.json carries global_env_bias == 0.0 the       *)
(* trader submits no BUY request whatever the plan contains: every buy it *)
(* processes produces no request and, when it carries a decision id, is   *)
(* marked 'rejected_safe_hold_mode'; the sells of the plan are processed  *)
(* as usual, a sell against a long position still being submitted.        *)
C40_SafeHoldRejectsBuys ==
    SafeHold =>
        /\ \A i \in DOMAIN submitted : submitted[i].side # "BUY"
        /\ (Traded /\ last_eval.order.action = "buy") =>
               /\ last_eval.requests = <<>>
               /\ Marked(last_eval.order, "rejected_safe_hold_mode")
        /\ (Traded /\ last_eval.order.action = "sell"
                /\ ~IsNone(LiveQty(last_eval.order.ticker))
                /\ Val(LiveQty(last_eval.order.ticker)) > 0) =>
               /\ Len(last_eval.requests) = 1
               /\ last_eval.requests[1].side = "SELL"

(* C40 witness: a finished run in safe hold whose plan held a buy with a  *)
(* decision id, now marked rejected, and a sell that went to the broker.  *)
C40_BuyRejectedSellSent ==
    /\ pc = "traded"
    /\ SafeHold
    /\ \E j \in DOMAIN orders, k \in DOMAIN execution :
          /\ orders[j].action = "buy"
          /\ execution[k] = [decision_id |-> orders[j].decision_id,
                             status |-> "rejected_safe_hold_mode"]
    /\ \E i \in DOMAIN submitted : submitted[i].side = "SELL"

====
